---- MODULE Spec2Model ----
(***************************************************************************)
(* Merkle airdrop contracts of Mint-Token-dApp.                            *)
(*                                                                         *)
(* Two claim-by-identity variants are modelled against one MyMintableToken: *)
(*   "AC"  AirdropWithAccessControl  (immutable root, pause, amount bound)  *)
(*   "UP"  Airdrop                   (UUPS proxy, rotatable root)           *)
(* A deployment picks one variant (Init); every external call is one atomic *)
(* step, and a call that reverts leaves all contract state as it was and    *)
(* only records its outcome in `last`.                                      *)
(*                                                                         *)
(* Amounts are in units of 100 tokens (100 * 10^18 wei).  The width of a    *)
(* uint256 is scaled down to MaxUint256; only the total supply can reach    *)
(* it, and only where a root commits amounts of that size.                  *)
(* keccak256 is modelled as collision free: a hash is the sequence of       *)
(* naturals that spells out its preimage.                                   *)
(***************************************************************************)
EXTENDS Integers, Sequences, FiniteSets, TLC

\* ------------------------------------------------------------------ bounds
MaxAmount == 3       \* largest entitlement amount a caller tries
MaxFunding == 1      \* tokens minted directly to the airdrop contract
MaxUpgrades == 1     \* logic replacements of the proxy
MaxRecipients == 3   \* entries of a generated recipients.json
MaxUint256 == 1000   \* stands for 2^256 - 1, the largest uint256, in model units
WordBits == 2        \* bits of a claimedBitMap word (256 on chain), in model units
MaxDepth == 2        \* claims nested inside one another through token callbacks

\* --------------------------------------------------------------- addresses
\* the test signers user1, user2, user3, the deployer, and the airdrop contract
ZeroAddress == 0
Users == {1, 2, 3}
Owner == 4
AirdropAddress == 5
TokenAddress == 6
\* the deployed MerkleDistributor
DistributorAddress == 7
Accounts == {Owner} \cup Users
Holders == Accounts \cup {AirdropAddress}
\* the accounts that send guarded calls: the deployer, an account that is
\* granted roles, and one that never holds any
Senders == {Owner, 1, 2}
\* the indices MerkleDistributor is asked about, and the words that hold them
Indices == 0..MaxRecipients
WordIndices == 0..(MaxRecipients \div WordBits)

\* ------------------------------------------------------------------ hashes
\* keccak256(abi.encodePacked(account, amount))
Leaf(account, amount) == <<0, account, amount>>

\* numeric comparison of two hash values (a < b)
RECURSIVE HashLess(_, _)
HashLess(a, b) ==
    IF b = <<>> THEN FALSE
    ELSE IF a = <<>> THEN TRUE
    ELSE IF Head(a) # Head(b) THEN Head(a) < Head(b)
    ELSE HashLess(Tail(a), Tail(b))

\* pair hash that keeps the order of its arguments
HashPair_Unsorted(a, b) == <<1>> \o a \o b

\* commutative hash of a pair: the smaller value goes first
HashPair(a, b) ==
    IF HashLess(a, b) THEN <<1>> \o a \o b ELSE <<1>> \o b \o a

\* MerkleProof.processProof: fold the proof over the leaf
RECURSIVE ProcessProof(_, _)
ProcessProof(proof, computedHash) ==
    IF proof = <<>> THEN computedHash
    ELSE ProcessProof(Tail(proof), HashPair(computedHash, Head(proof)))

\* MerkleProof.verify
Verify(proof, root, leaf) == ProcessProof(proof, leaf) = root

\* ------------------------------------------------ off-chain tree (sortPairs)
RECURSIVE NextLayer(_)
NextLayer(nodes) ==
    IF Len(nodes) = 0 THEN <<>>
    ELSE IF Len(nodes) = 1 THEN <<nodes[1]>>
    ELSE <<HashPair(nodes[1], nodes[2])>> \o NextLayer(Tail(Tail(nodes)))

RECURSIVE TreeRoot(_)
TreeRoot(nodes) ==
    IF Len(nodes) = 1 THEN nodes[1] ELSE TreeRoot(NextLayer(nodes))

RECURSIVE GetProof(_, _)
GetProof(nodes, i) ==
    IF Len(nodes) = 1 THEN <<>>
    ELSE LET sib == IF i % 2 = 1 THEN i + 1 ELSE i - 1
             up  == GetProof(NextLayer(nodes), (i + 1) \div 2)
         IN  IF sib <= Len(nodes) THEN <<nodes[sib]>> \o up ELSE up

LeavesOf(recipients) ==
    [i \in 1..Len(recipients) |-> Leaf(recipients[i].address, recipients[i].amount)]

\* --------------------------------------------------------- committed trees
\* AirdropWithAccessControl: user1 100, user2 200 (user3 is not in the tree)
RecipientsAC == << [address |-> 1, amount |-> 1], [address |-> 2, amount |-> 2] >>
\* Airdrop, first root: user1 100, user2 200, user3 300
Round1 == << [address |-> 1, amount |-> 1], [address |-> 2, amount |-> 2],
             [address |-> 3, amount |-> 3] >>
\* Airdrop, a later root: user1 now 300, user2 200, user3 dropped
Round2 == << [address |-> 1, amount |-> 3], [address |-> 2, amount |-> 2] >>

RootAC == TreeRoot(LeavesOf(RecipientsAC))
Root1 == TreeRoot(LeavesOf(Round1))
Root2 == TreeRoot(LeavesOf(Round2))
\* keccak256("new-root"): a root no leaf hashes up to
NewRoot == <<2>>
RootChoices == {Root1, Root2, NewRoot}

\* ----------------------------------------------------------- call inputs
DefaultMaxClaimAmount == 10
ClaimAmounts == (0..MaxAmount) \cup {DefaultMaxClaimAmount + 1}
NewMaxChoices == {1, DefaultMaxClaimAmount}
\* token addresses a caller passes to initialize
TokenChoices == {TokenAddress, ZeroAddress}

\* the (account, amount, proof) triples a recipient list commits to
Committed(recipients) ==
    {<<recipients[i].address, recipients[i].amount,
       GetProof(LeavesOf(recipients), i)>> : i \in 1..Len(recipients)}

\* proofs callers submit: the generated ones, and each of them with its last
\* element dropped or with one element replaced by a foreign hash
Truncated(p) == IF p = <<>> THEN <<>> ELSE SubSeq(p, 1, Len(p) - 1)
Altered(p) == {[p EXCEPT ![i] = NewRoot] : i \in 1..Len(p)}
ProofsFor(committed) ==
    LET genuine == {t[3] : t \in committed}
    IN  genuine \cup {Truncated(p) : p \in genuine}
                \cup UNION {Altered(p) : p \in genuine}
CommittedAC == Committed(RecipientsAC)
CommittedR1 == Committed(Round1)
CommittedR2 == Committed(Round2)
CommittedUP == CommittedR1 \cup CommittedR2
ProofInputsAC == ProofsFor(CommittedAC)
ProofInputsUP == ProofsFor(CommittedUP)

\* ------------------------------------------------------------------ roles
DEFAULT_ADMIN_ROLE == "DEFAULT_ADMIN_ROLE"
ADMIN_ROLE == "ADMIN_ROLE"
PAUSER_ROLE == "PAUSER_ROLE"
CLAIM_MANAGER_ROLE == "CLAIM_MANAGER_ROLE"
MINTER_ROLE == "MINTER_ROLE"
RolesAC == {DEFAULT_ADMIN_ROLE, ADMIN_ROLE, PAUSER_ROLE, CLAIM_MANAGER_ROLE}
RolesUP == {DEFAULT_ADMIN_ROLE}
AllRoles == RolesAC
\* accounts that role grants and revocations name
RoleTargetsAC == {1}
RoleTargetsUP == {Owner, 1}

VARIABLES
    variant,          \* "AC" or "UP": which airdrop contract is deployed
    token,            \* address of the token the airdrop contract mints
    initialized,      \* Initializable: the proxy's storage has been set up
    merkleRoot,       \* immutable in AC, rotatable in UP
    isClaimed,        \* AirdropWithAccessControl.isClaimed
    hasClaimed,       \* Airdrop.hasClaimed
    claimedBitMap,    \* MerkleDistributor.claimedBitMap: word index -> word
    pending,          \* the claims that are inside their external token call
    isPaused,
    totalClaimed,
    maxClaimAmount,
    roles,            \* AccessControl._roles of the airdrop contract
    implementation,   \* how many times the proxy logic was replaced
    balances,         \* ERC20 balances of MyMintableToken
    totalSupply,
    minters,          \* holders of MINTER_ROLE on the token
    last              \* the most recent external call and its outcome

vars == <<variant, pending, claimedBitMap, token, initialized, merkleRoot, isClaimed, hasClaimed, isPaused, totalClaimed,
          maxClaimAmount, roles, implementation, balances, totalSupply,
          minters, last>>

\* everything except the call record
contractState == <<variant, pending, claimedBitMap, token, initialized, merkleRoot, isClaimed, hasClaimed, isPaused,
                   totalClaimed, maxClaimAmount, roles, implementation,
                   balances, totalSupply, minters>>

\* The record of the most recent call: its entry point and how it ended
\* ("ok" or the name of the revert error).  A call that succeeds also leaves
\* its sender and amount and the event its own code emits; a reverted call
\* leaves no log.
NoEvent == <<>>
Call(op, caller, amount, result) ==
    IF result = "ok"
    THEN [op |-> op, caller |-> caller, amount |-> amount, result |-> result,
          event |-> NoEvent]
    ELSE [op |-> op, caller |-> ZeroAddress, amount |-> 0, result |-> result,
          event |-> NoEvent]

\* emit whose log survives a revert
Emit_Always(call, event) == [call EXCEPT !.event = event]

\* `emit` at the end of a call: logged only when the call does not revert
Emit(call, event) ==
    IF call.result = "ok" THEN [call EXCEPT !.event = event] ELSE call

\* the events of AirdropWithAccessControl and Airdrop
EvClaimed(account, amount) == <<"Claimed", account, amount>>
EvAirdropClaimed(user, amount) == <<"AirdropClaimed", user, amount>>
EvPaused(account) == <<"Paused", account>>
EvUnpaused(account) == <<"Unpaused", account>>
EvMaxClaimAmountUpdated(oldAmount, newAmount) == <<"MaxClaimAmountUpdated", oldAmount, newAmount>>
EvEmergencyWithdraw(amount) == <<"EmergencyWithdraw", amount>>
EvMerkleRootUpdated(newRoot) == <<"MerkleRootUpdated", newRoot>>

NoCall == Call("deploy", Owner, 0, "ok")

\* state shared by both deployments: fresh token, nothing claimed
InitCommon ==
    /\ isClaimed = [a \in Accounts |-> FALSE]
    /\ claimedBitMap = [w \in WordIndices |-> 0]
    /\ pending = <<>>
    /\ hasClaimed = [a \in Accounts |-> FALSE]
    /\ implementation = 0
    /\ balances = [h \in Holders |-> 0]
    /\ totalSupply = 0
    /\ minters = {Owner}
    /\ last = NoCall

\* constructor that forgets to grant PAUSER_ROLE
InitAC_NoPauser ==
    /\ variant = "AC"
    /\ token = TokenAddress
    /\ initialized = FALSE
    /\ merkleRoot = RootAC
    /\ isPaused = FALSE
    /\ totalClaimed = 0
    /\ maxClaimAmount = DefaultMaxClaimAmount
    /\ roles = [r \in AllRoles |-> IF r = PAUSER_ROLE THEN {} ELSE {Owner}]

\* AirdropWithAccessControl constructor
InitAC ==
    /\ variant = "AC"
    /\ token = TokenAddress
    /\ initialized = FALSE
    /\ merkleRoot = RootAC
    /\ isPaused = FALSE
    /\ totalClaimed = 0
    /\ maxClaimAmount = DefaultMaxClaimAmount
    /\ roles = [r \in AllRoles |-> {Owner}]

\* Airdrop behind its proxy, after initialize(token, root, admin)
InitUP ==
    /\ variant = "UP"
    /\ token = TokenAddress
    /\ initialized = TRUE
    /\ merkleRoot = Root1
    /\ isPaused = FALSE
    /\ totalClaimed = 0
    /\ maxClaimAmount = 0
    /\ roles = [r \in AllRoles |-> IF r = DEFAULT_ADMIN_ROLE THEN {Owner} ELSE {}]

Init == InitCommon /\ (InitAC \/ InitUP)

hasRole(role, account) == account \in roles[role]

\* ------------------------------------------------------- MyMintableToken
\* mint(to, amount) onlyRole(MINTER_ROLE), as called by `sender`
MintAllowed(sender) == sender \in minters
\* ERC20._update adds the amount to the total supply in checked arithmetic
MintResult(sender, amount) ==
    IF ~MintAllowed(sender) THEN "AccessControlUnauthorizedAccount"
    ELSE IF totalSupply + amount > MaxUint256 THEN "Panic"
    ELSE "ok"

\* mint that credits the recipient twice
Minted_Twice(to, amount) == [balances EXCEPT ![to] = @ + 2 * amount]

Minted(to, amount) == [balances EXCEPT ![to] = @ + amount]

\* ---------------------------------------------- AirdropWithAccessControl
\* claim without the isClaimed check
ValidateAC_NoClaimedCheck(caller, amount, proof) ==
    IF isPaused THEN "AirdropPaused"
    ELSE IF amount = 0 THEN "ZeroAmount"
    ELSE IF amount > maxClaimAmount THEN "ExceedsMaxClaimAmount"
    ELSE IF ~Verify(proof, merkleRoot, Leaf(caller, amount)) THEN "InvalidProof"
    ELSE "ok"

\* claim that hashes the leaf without the amount
ValidateAC_LeafWithoutAmount(caller, amount, proof) ==
    IF isPaused THEN "AirdropPaused"
    ELSE IF isClaimed[caller] THEN "AlreadyClaimed"
    ELSE IF amount = 0 THEN "ZeroAmount"
    ELSE IF amount > maxClaimAmount THEN "ExceedsMaxClaimAmount"
    ELSE IF \A a \in ClaimAmounts : ~Verify(proof, merkleRoot, Leaf(caller, a))
         THEN "InvalidProof"
    ELSE "ok"

\* claim without the bound on the amount
ValidateAC_NoMaxCheck(caller, amount, proof) ==
    IF isPaused THEN "AirdropPaused"
    ELSE IF isClaimed[caller] THEN "AlreadyClaimed"
    ELSE IF amount = 0 THEN "ZeroAmount"
    ELSE IF ~Verify(proof, merkleRoot, Leaf(caller, amount)) THEN "InvalidProof"
    ELSE "ok"

\* claim that waves ADMIN_ROLE holders through without a proof
ValidateAC_AdminBypass(caller, amount, proof) ==
    IF isPaused THEN "AirdropPaused"
    ELSE IF isClaimed[caller] THEN "AlreadyClaimed"
    ELSE IF amount = 0 THEN "ZeroAmount"
    ELSE IF amount > maxClaimAmount THEN "ExceedsMaxClaimAmount"
    ELSE IF hasRole(ADMIN_ROLE, caller) THEN "ok"
    ELSE IF ~Verify(proof, merkleRoot, Leaf(caller, amount)) THEN "InvalidProof"
    ELSE "ok"

\* claim that verifies the proof before it looks at the amount
ValidateAC_ProofFirst(caller, amount, proof) ==
    IF isPaused THEN "AirdropPaused"
    ELSE IF isClaimed[caller] THEN "AlreadyClaimed"
    ELSE IF ~Verify(proof, merkleRoot, Leaf(caller, amount)) THEN "InvalidProof"
    ELSE IF amount = 0 THEN "ZeroAmount"
    ELSE IF amount > maxClaimAmount THEN "ExceedsMaxClaimAmount"
    ELSE "ok"

\* claim that accepts the leaf of any account
ValidateAC_AnyAccount(caller, amount, proof) ==
    IF isPaused THEN "AirdropPaused"
    ELSE IF isClaimed[caller] THEN "AlreadyClaimed"
    ELSE IF amount = 0 THEN "ZeroAmount"
    ELSE IF amount > maxClaimAmount THEN "ExceedsMaxClaimAmount"
    ELSE IF \A a \in Accounts : ~Verify(proof, merkleRoot, Leaf(a, amount))
         THEN "InvalidProof"
    ELSE "ok"

\* the guards of claim, in source order
ValidateAC(caller, amount, proof) ==
    IF isPaused THEN "AirdropPaused"
    ELSE IF isClaimed[caller] THEN "AlreadyClaimed"
    ELSE IF amount = 0 THEN "ZeroAmount"
    ELSE IF amount > maxClaimAmount THEN "ExceedsMaxClaimAmount"
    ELSE IF ~Verify(proof, merkleRoot, Leaf(caller, amount)) THEN "InvalidProof"
    ELSE "ok"

\* outcome of claim(amount, proof) sent by caller
ClaimResultAC(caller, amount, proof) ==
    LET v == ValidateAC(caller, amount, proof)
    IN  IF v # "ok" THEN v ELSE MintResult(AirdropAddress, amount)

\* claim that forgets the running total
ClaimAC_NoTotal(caller, amount, proof) ==
    /\ variant = "AC"
    /\ LET r == ClaimResultAC(caller, amount, proof)
       IN  /\ last' = Emit(Call("claim", caller, amount, r), EvClaimed(caller, amount))
           /\ IF r = "ok"
              THEN /\ isClaimed' = [isClaimed EXCEPT ![caller] = TRUE]
                   /\ balances' = Minted(caller, amount)
                   /\ totalSupply' = totalSupply + amount
                   /\ UNCHANGED <<variant, pending, claimedBitMap, token, initialized, merkleRoot, hasClaimed, isPaused,
                                  totalClaimed, maxClaimAmount, roles,
                                  implementation, minters>>
              ELSE UNCHANGED contractState

\* claim that records the caller before it verifies the proof
ClaimAC_MarkBeforeVerify(caller, amount, proof) ==
    /\ variant = "AC"
    /\ LET r == ClaimResultAC(caller, amount, proof)
       IN  /\ last' = Emit(Call("claim", caller, amount, r), EvClaimed(caller, amount))
           /\ IF r = "ok"
              THEN /\ isClaimed' = [isClaimed EXCEPT ![caller] = TRUE]
                   /\ totalClaimed' = totalClaimed + amount
                   /\ balances' = Minted(caller, amount)
                   /\ totalSupply' = totalSupply + amount
                   /\ UNCHANGED <<variant, pending, claimedBitMap, token, initialized, merkleRoot, hasClaimed, isPaused,
                                  maxClaimAmount, roles, implementation, minters>>
              ELSE IF r = "InvalidProof"
              THEN /\ isClaimed' = [isClaimed EXCEPT ![caller] = TRUE]
                   /\ UNCHANGED <<variant, pending, claimedBitMap, token, initialized, merkleRoot, hasClaimed, isPaused,
                                  totalClaimed, maxClaimAmount, roles,
                                  implementation, balances, totalSupply, minters>>
              ELSE UNCHANGED contractState

\* claim that swallows a failed mint and keeps its own bookkeeping
ClaimAC_NoRollback(caller, amount, proof) ==
    /\ variant = "AC"
    /\ LET r == ClaimResultAC(caller, amount, proof)
       IN  /\ last' = Emit(Call("claim", caller, amount, r), EvClaimed(caller, amount))
           /\ IF r = "ok"
              THEN /\ isClaimed' = [isClaimed EXCEPT ![caller] = TRUE]
                   /\ totalClaimed' = totalClaimed + amount
                   /\ balances' = Minted(caller, amount)
                   /\ totalSupply' = totalSupply + amount
                   /\ UNCHANGED <<variant, pending, claimedBitMap, token, initialized, merkleRoot, hasClaimed, isPaused,
                                  maxClaimAmount, roles, implementation, minters>>
              ELSE IF ValidateAC(caller, amount, proof) = "ok"
              THEN /\ isClaimed' = [isClaimed EXCEPT ![caller] = TRUE]
                   /\ totalClaimed' = totalClaimed + amount
                   /\ UNCHANGED <<variant, pending, claimedBitMap, token, initialized, merkleRoot, hasClaimed, isPaused,
                                  maxClaimAmount, roles, implementation,
                                  balances, totalSupply, minters>>
              ELSE UNCHANGED contractState

\* claim whose running total counts claims instead of adding amounts
ClaimAC_CountsClaims(caller, amount, proof) ==
    /\ variant = "AC"
    /\ LET r == ClaimResultAC(caller, amount, proof)
       IN  /\ last' = Emit(Call("claim", caller, amount, r), EvClaimed(caller, amount))
           /\ IF r = "ok"
              THEN /\ isClaimed' = [isClaimed EXCEPT ![caller] = TRUE]
                   /\ totalClaimed' = totalClaimed + 1
                   /\ balances' = Minted(caller, amount)
                   /\ totalSupply' = totalSupply + amount
                   /\ UNCHANGED <<variant, pending, claimedBitMap, token, initialized, merkleRoot, hasClaimed, isPaused,
                                  maxClaimAmount, roles, implementation, minters>>
              ELSE UNCHANGED contractState

ClaimAC(caller, amount, proof) ==
    /\ variant = "AC"
    /\ LET r == ClaimResultAC(caller, amount, proof)
       IN  /\ last' = Emit(Call("claim", caller, amount, r), EvClaimed(caller, amount))
           /\ IF r = "ok"
              THEN /\ isClaimed' = [isClaimed EXCEPT ![caller] = TRUE]
                   /\ totalClaimed' = totalClaimed + amount
                   /\ balances' = Minted(caller, amount)
                   /\ totalSupply' = totalSupply + amount
                   /\ UNCHANGED <<variant, pending, claimedBitMap, token, initialized, merkleRoot, hasClaimed, isPaused,
                                  maxClaimAmount, roles, implementation, minters>>
              ELSE UNCHANGED contractState

\* canClaim that forgets the bound on the amount
canClaim_NoMaxCheck(account, amount, proof) ==
    IF isPaused THEN FALSE
    ELSE IF isClaimed[account] THEN FALSE
    ELSE IF amount = 0 THEN FALSE
    ELSE Verify(proof, merkleRoot, Leaf(account, amount))

canClaim(account, amount, proof) ==
    IF isPaused THEN FALSE
    ELSE IF isClaimed[account] THEN FALSE
    ELSE IF amount = 0 THEN FALSE
    ELSE IF amount > maxClaimAmount THEN FALSE
    ELSE Verify(proof, merkleRoot, Leaf(account, amount))

\* onlyRole that lets every caller through
CheckRole_Open(role, caller) == "ok"

\* onlyRole(role): the revert of AccessControl._checkRole
CheckRole(role, caller) ==
    IF hasRole(role, caller) THEN "ok" ELSE "AccessControlUnauthorizedAccount"

\* pause guarded by ADMIN_ROLE instead of PAUSER_ROLE
pause_AdminGuard(caller) ==
    /\ variant = "AC"
    /\ LET r == CheckRole(ADMIN_ROLE, caller)
       IN  /\ last' = Emit(Call("pause", caller, 0, r), EvPaused(caller))
           /\ isPaused' = IF r = "ok" THEN TRUE ELSE isPaused
           /\ UNCHANGED <<variant, pending, claimedBitMap, token, initialized, merkleRoot, isClaimed, hasClaimed, totalClaimed,
                          maxClaimAmount, roles, implementation, balances,
                          totalSupply, minters>>

pause(caller) ==
    /\ variant = "AC"
    /\ LET r == CheckRole(PAUSER_ROLE, caller)
       IN  /\ last' = Emit(Call("pause", caller, 0, r), EvPaused(caller))
           /\ isPaused' = IF r = "ok" THEN TRUE ELSE isPaused
           /\ UNCHANGED <<variant, pending, claimedBitMap, token, initialized, merkleRoot, isClaimed, hasClaimed, totalClaimed,
                          maxClaimAmount, roles, implementation, balances,
                          totalSupply, minters>>

\* unpause that sets the flag instead of clearing it
unpause_SetsFlag(caller) ==
    /\ variant = "AC"
    /\ LET r == CheckRole(PAUSER_ROLE, caller)
       IN  /\ last' = Emit(Call("unpause", caller, 0, r), EvUnpaused(caller))
           /\ isPaused' = IF r = "ok" THEN TRUE ELSE isPaused
           /\ UNCHANGED <<variant, pending, claimedBitMap, token, initialized, merkleRoot, isClaimed, hasClaimed, totalClaimed,
                          maxClaimAmount, roles, implementation, balances,
                          totalSupply, minters>>

unpause(caller) ==
    /\ variant = "AC"
    /\ LET r == CheckRole(PAUSER_ROLE, caller)
       IN  /\ last' = Emit(Call("unpause", caller, 0, r), EvUnpaused(caller))
           /\ isPaused' = IF r = "ok" THEN FALSE ELSE isPaused
           /\ UNCHANGED <<variant, pending, claimedBitMap, token, initialized, merkleRoot, isClaimed, hasClaimed, totalClaimed,
                          maxClaimAmount, roles, implementation, balances,
                          totalSupply, minters>>

\* setMaxClaimAmount that can only raise the bound
setMaxClaimAmount_OnlyRaises(caller, newMaxAmount) ==
    /\ variant = "AC"
    /\ LET r == CheckRole(ADMIN_ROLE, caller)
       IN  /\ last' = Emit(Call("setMaxClaimAmount", caller, newMaxAmount, r),
                        EvMaxClaimAmountUpdated(maxClaimAmount, newMaxAmount))
           /\ maxClaimAmount' = IF r = "ok" /\ newMaxAmount > maxClaimAmount
                                THEN newMaxAmount ELSE maxClaimAmount
           /\ UNCHANGED <<variant, pending, claimedBitMap, token, initialized, merkleRoot, isClaimed, hasClaimed, isPaused,
                          totalClaimed, roles, implementation, balances,
                          totalSupply, minters>>

setMaxClaimAmount(caller, newMaxAmount) ==
    /\ variant = "AC"
    /\ LET r == CheckRole(ADMIN_ROLE, caller)
       IN  /\ last' = Emit(Call("setMaxClaimAmount", caller, newMaxAmount, r),
                        EvMaxClaimAmountUpdated(maxClaimAmount, newMaxAmount))
           /\ maxClaimAmount' = IF r = "ok" THEN newMaxAmount ELSE maxClaimAmount
           /\ UNCHANGED <<variant, pending, claimedBitMap, token, initialized, merkleRoot, isClaimed, hasClaimed, isPaused,
                          totalClaimed, roles, implementation, balances,
                          totalSupply, minters>>

\* emergencyWithdraw that sends the requested amount unclamped
WithdrawAmount_NoClamp(amount) == amount

\* the amount emergencyWithdraw sends: the request clamped to the balance
WithdrawAmount(amount) ==
    IF amount > balances[AirdropAddress] THEN balances[AirdropAddress] ELSE amount

\* emergencyWithdraw that is refused while the contract is paused
emergencyWithdraw_WhenNotPaused(caller, amount) ==
    /\ variant = "AC"
    /\ LET r == IF isPaused THEN "AirdropPaused" ELSE CheckRole(ADMIN_ROLE, caller)
           sent == WithdrawAmount(amount)
       IN  /\ last' = IF sent > 0
                      THEN Emit(Call("emergencyWithdraw", caller, sent, r),
                                EvEmergencyWithdraw(sent))
                      ELSE Call("emergencyWithdraw", caller, sent, r)
           /\ balances' = IF r = "ok" /\ sent > 0
                          THEN [balances EXCEPT ![AirdropAddress] = @ - sent,
                                                ![caller] = @ + sent]
                          ELSE balances
           /\ UNCHANGED <<variant, pending, claimedBitMap, token, initialized, merkleRoot, isClaimed,
                          hasClaimed, isPaused, totalClaimed, maxClaimAmount,
                          roles, implementation, totalSupply, minters>>

emergencyWithdraw(caller, amount) ==
    /\ variant = "AC"
    /\ LET r == CheckRole(ADMIN_ROLE, caller)
           sent == WithdrawAmount(amount)
       IN  /\ last' = IF sent > 0
                      THEN Emit(Call("emergencyWithdraw", caller, sent, r),
                                EvEmergencyWithdraw(sent))
                      ELSE Call("emergencyWithdraw", caller, sent, r)
           /\ balances' = IF r = "ok" /\ sent > 0
                          THEN [balances EXCEPT ![AirdropAddress] = @ - sent,
                                                ![caller] = @ + sent]
                          ELSE balances
           /\ UNCHANGED <<variant, pending, claimedBitMap, token, initialized, merkleRoot, isClaimed, hasClaimed, isPaused,
                          totalClaimed, maxClaimAmount, roles, implementation,
                          totalSupply, minters>>

\* a role-changing call guarded by onlyRole(guard): grant or revoke `role`
RoleCall(op, guard, caller, role, account, grant) ==
    LET r == CheckRole(guard, caller)
    IN  /\ last' = Call(op, caller, 0, r)
        /\ roles' = IF r # "ok" THEN roles
                    ELSE IF grant THEN [roles EXCEPT ![role] = @ \cup {account}]
                    ELSE [roles EXCEPT ![role] = @ \ {account}]
        /\ UNCHANGED <<variant, pending, claimedBitMap, token, initialized, merkleRoot, isClaimed, hasClaimed, isPaused,
                       totalClaimed, maxClaimAmount, implementation, balances,
                       totalSupply, minters>>

grantAdminRole(caller, account) ==
    variant = "AC" /\ RoleCall("grantAdminRole", DEFAULT_ADMIN_ROLE, caller, ADMIN_ROLE, account, TRUE)
revokeAdminRole(caller, account) ==
    variant = "AC" /\ RoleCall("revokeAdminRole", DEFAULT_ADMIN_ROLE, caller, ADMIN_ROLE, account, FALSE)
grantPauserRole(caller, account) ==
    variant = "AC" /\ RoleCall("grantPauserRole", ADMIN_ROLE, caller, PAUSER_ROLE, account, TRUE)
\* revokePauserRole open to every pauser
revokePauserRole_PauserGuard(caller, account) ==
    variant = "AC" /\ RoleCall("revokePauserRole", PAUSER_ROLE, caller, PAUSER_ROLE, account, FALSE)

revokePauserRole(caller, account) ==
    variant = "AC" /\ RoleCall("revokePauserRole", ADMIN_ROLE, caller, PAUSER_ROLE, account, FALSE)
grantClaimManagerRole(caller, account) ==
    variant = "AC" /\ RoleCall("grantClaimManagerRole", ADMIN_ROLE, caller, CLAIM_MANAGER_ROLE, account, TRUE)
revokeClaimManagerRole(caller, account) ==
    variant = "AC" /\ RoleCall("revokeClaimManagerRole", ADMIN_ROLE, caller, CLAIM_MANAGER_ROLE, account, FALSE)

\* the roles the deployed contract defines
RolesOf == IF variant = "AC" THEN RolesAC ELSE RolesUP
RoleTargets == IF variant = "AC" THEN RoleTargetsAC ELSE RoleTargetsUP

\* grantRole that the deployer may always call, role or no role
grantRole_ByDeployer(caller, role, account) ==
    LET r == IF caller = Owner THEN "ok" ELSE CheckRole(DEFAULT_ADMIN_ROLE, caller)
    IN  /\ last' = Call("grantRole", caller, 0, r)
        /\ roles' = IF r # "ok" THEN roles
                    ELSE [roles EXCEPT ![role] = @ \cup {account}]
        /\ UNCHANGED <<variant, pending, claimedBitMap, token, initialized,
                       merkleRoot, isClaimed, hasClaimed, isPaused,
                       totalClaimed, maxClaimAmount, implementation, balances,
                       totalSupply, minters>>

\* inherited AccessControl entry points; every role's admin is DEFAULT_ADMIN_ROLE
grantRole(caller, role, account) ==
    RoleCall("grantRole", DEFAULT_ADMIN_ROLE, caller, role, account, TRUE)
revokeRole(caller, role, account) ==
    RoleCall("revokeRole", DEFAULT_ADMIN_ROLE, caller, role, account, FALSE)

renounceRole(caller, role, callerConfirmation) ==
    /\ variant \in {"AC", "UP"}
    /\ LET r == IF callerConfirmation # caller THEN "AccessControlBadConfirmation" ELSE "ok"
       IN  /\ last' = Call("renounceRole", caller, 0, r)
           /\ roles' = IF r = "ok" THEN [roles EXCEPT ![role] = @ \ {caller}] ELSE roles
           /\ UNCHANGED <<variant, pending, claimedBitMap, token, initialized, merkleRoot, isClaimed, hasClaimed, isPaused,
                          totalClaimed, maxClaimAmount, implementation, balances,
                          totalSupply, minters>>

\* ------------------------------------------------------- MyMintableToken
\* the deployer keeps DEFAULT_ADMIN_ROLE of the token
TokenAdminCheck(caller) ==
    IF caller = Owner THEN "ok" ELSE "AccessControlUnauthorizedAccount"

grantMinterRole(caller, account) ==
    /\ LET r == TokenAdminCheck(caller)
       IN  /\ last' = Call("grantMinterRole", caller, 0, r)
           /\ minters' = IF r = "ok" THEN minters \cup {account} ELSE minters
    /\ UNCHANGED <<variant, pending, claimedBitMap, token, initialized, merkleRoot, isClaimed, hasClaimed, isPaused, totalClaimed,
                   maxClaimAmount, roles, implementation, balances, totalSupply>>

revokeMinterRole(caller, account) ==
    /\ LET r == TokenAdminCheck(caller)
       IN  /\ last' = Call("revokeMinterRole", caller, 0, r)
           /\ minters' = IF r = "ok" THEN minters \ {account} ELSE minters
    /\ UNCHANGED <<variant, pending, claimedBitMap, token, initialized, merkleRoot, isClaimed, hasClaimed, isPaused, totalClaimed,
                   maxClaimAmount, roles, implementation, balances, totalSupply>>

\* tokens no claim minted: sent to the airdrop contract for recovery tests
Funded == totalSupply - totalClaimed

\* token.mint(airdrop, amount) sent directly by an account
mint(caller, to, amount) ==
    /\ variant = "AC"
    /\ Funded + amount <= MaxFunding
    /\ LET r == MintResult(caller, amount)
       IN  /\ last' = Call("mint", caller, amount, r)
           /\ balances' = IF r = "ok" THEN Minted(to, amount) ELSE balances
           /\ totalSupply' = IF r = "ok" THEN totalSupply + amount ELSE totalSupply
    /\ UNCHANGED <<variant, pending, claimedBitMap, token, initialized, merkleRoot, isClaimed, hasClaimed, isPaused, totalClaimed,
                   maxClaimAmount, roles, implementation, minters>>

\* ----------------------------------------------------- Airdrop (upgradeable)
\* claim whose record is consulted only under the root it was made under
ValidateUP_PerRound(caller, amount, proof) ==
    IF hasClaimed[caller] /\ merkleRoot = Root1 THEN "AlreadyClaimed"
    ELSE IF amount = 0 THEN "ZeroAmount"
    ELSE IF ~Verify(proof, merkleRoot, Leaf(caller, amount)) THEN "InvalidProof"
    ELSE "ok"

\* claim that keeps honouring the root the proxy was initialised with
ValidateUP_KeepsOldRoot(caller, amount, proof) ==
    IF hasClaimed[caller] THEN "AlreadyClaimed"
    ELSE IF amount = 0 THEN "ZeroAmount"
    ELSE IF ~(\/ Verify(proof, merkleRoot, Leaf(caller, amount))
              \/ Verify(proof, Root1, Leaf(caller, amount))) THEN "InvalidProof"
    ELSE "ok"

\* claim with the amount bound of AirdropWithAccessControl
ValidateUP_Bounded(caller, amount, proof) ==
    IF hasClaimed[caller] THEN "AlreadyClaimed"
    ELSE IF amount = 0 THEN "ZeroAmount"
    ELSE IF amount > DefaultMaxClaimAmount THEN "ExceedsMaxClaimAmount"
    ELSE IF ~Verify(proof, merkleRoot, Leaf(caller, amount)) THEN "InvalidProof"
    ELSE "ok"

\* the guards of claim, in source order
ValidateUP(caller, amount, proof) ==
    IF hasClaimed[caller] THEN "AlreadyClaimed"
    ELSE IF amount = 0 THEN "ZeroAmount"
    ELSE IF ~Verify(proof, merkleRoot, Leaf(caller, amount)) THEN "InvalidProof"
    ELSE "ok"

ClaimResultUP(caller, amount, proof) ==
    LET v == ValidateUP(caller, amount, proof)
    IN  IF v # "ok" THEN v ELSE MintResult(AirdropAddress, amount)

ClaimUP(caller, amount, proof) ==
    /\ variant = "UP"
    /\ LET r == ClaimResultUP(caller, amount, proof)
       IN  /\ last' = Emit(Call("claim", caller, amount, r),
                        EvAirdropClaimed(caller, amount))
           /\ IF r = "ok"
              THEN /\ hasClaimed' = [hasClaimed EXCEPT ![caller] = TRUE]
                   /\ balances' = Minted(caller, amount)
                   /\ totalSupply' = totalSupply + amount
                   /\ UNCHANGED <<variant, pending, claimedBitMap, token, initialized, merkleRoot, isClaimed, isPaused,
                                  totalClaimed, maxClaimAmount, roles,
                                  implementation, minters>>
              ELSE UNCHANGED contractState

\* setMerkleRoot that starts a fresh round by clearing the claim records
setMerkleRoot_ClearsClaims(caller, newRoot) ==
    /\ variant = "UP"
    /\ LET r == CheckRole(DEFAULT_ADMIN_ROLE, caller)
       IN  /\ last' = Emit(Call("setMerkleRoot", caller, 0, r), EvMerkleRootUpdated(newRoot))
           /\ merkleRoot' = IF r = "ok" THEN newRoot ELSE merkleRoot
           /\ hasClaimed' = IF r = "ok" THEN [a \in Accounts |-> FALSE] ELSE hasClaimed
    /\ UNCHANGED <<variant, pending, claimedBitMap, token, initialized, isClaimed, isPaused, totalClaimed,
                   maxClaimAmount, roles, implementation, balances, totalSupply,
                   minters>>

\* setMerkleRoot without its role guard
setMerkleRoot_Unguarded(caller, newRoot) ==
    /\ variant = "UP"
    /\ last' = Emit(Call("setMerkleRoot", caller, 0, "ok"), EvMerkleRootUpdated(newRoot))
    /\ merkleRoot' = newRoot
    /\ UNCHANGED <<variant, pending, claimedBitMap, token, initialized, isClaimed, hasClaimed, isPaused, totalClaimed,
                   maxClaimAmount, roles, implementation, balances, totalSupply,
                   minters>>

\* setMerkleRoot after which the sender is no longer an administrator
setMerkleRoot_DropsAdmin(caller, newRoot) ==
    /\ variant = "UP"
    /\ LET r == CheckRole(DEFAULT_ADMIN_ROLE, caller)
       IN  /\ last' = Emit(Call("setMerkleRoot", caller, 0, r), EvMerkleRootUpdated(newRoot))
           /\ merkleRoot' = IF r = "ok" THEN newRoot ELSE merkleRoot
           /\ roles' = IF r = "ok"
                       THEN [roles EXCEPT ![DEFAULT_ADMIN_ROLE] = @ \ {caller}]
                       ELSE roles
    /\ UNCHANGED <<variant, pending, claimedBitMap, token, initialized, isClaimed, hasClaimed, isPaused, totalClaimed,
                   maxClaimAmount, implementation, balances, totalSupply,
                   minters>>

\* setMerkleRoot reserved to the administrator named at initialization
setMerkleRoot_InitialAdmin(caller, newRoot) ==
    /\ variant = "UP"
    /\ LET r == IF caller = Owner THEN "ok" ELSE "AccessControlUnauthorizedAccount"
       IN  /\ last' = Emit(Call("setMerkleRoot", caller, 0, r), EvMerkleRootUpdated(newRoot))
           /\ merkleRoot' = IF r = "ok" THEN newRoot ELSE merkleRoot
    /\ UNCHANGED <<variant, pending, claimedBitMap, token, initialized, isClaimed, hasClaimed, isPaused,
                   totalClaimed, maxClaimAmount, roles, implementation, balances,
                   totalSupply, minters>>

setMerkleRoot(caller, newRoot) ==
    /\ variant = "UP"
    /\ LET r == CheckRole(DEFAULT_ADMIN_ROLE, caller)
       IN  /\ last' = Emit(Call("setMerkleRoot", caller, 0, r), EvMerkleRootUpdated(newRoot))
           /\ merkleRoot' = IF r = "ok" THEN newRoot ELSE merkleRoot
    /\ UNCHANGED <<variant, pending, claimedBitMap, token, initialized, isClaimed, hasClaimed, isPaused, totalClaimed,
                   maxClaimAmount, roles, implementation, balances, totalSupply,
                   minters>>

\* initialize without the `initializer` modifier
InitializerCheck_Open == "ok"

\* the `initializer` modifier: it lets a call through only while the proxy's
\* storage has never been initialised
InitializerCheck == IF initialized THEN "InvalidInitialization" ELSE "ok"

\* initialize(tokenAddress, root, admin), sent to the proxy by any account
initialize(caller, tokenAddress, root, admin) ==
    /\ variant = "UP"
    /\ LET r == InitializerCheck
       IN  /\ last' = Call("initialize", caller, 0, r)
           /\ IF r = "ok"
              THEN /\ initialized' = TRUE
                   /\ token' = tokenAddress
                   /\ merkleRoot' = root
                   /\ roles' = [roles EXCEPT ![DEFAULT_ADMIN_ROLE] = @ \cup {admin}]
              ELSE UNCHANGED <<initialized, token, merkleRoot, roles>>
    /\ UNCHANGED <<variant, pending, claimedBitMap, isClaimed, hasClaimed, isPaused, totalClaimed,
                   maxClaimAmount, implementation, balances, totalSupply, minters>>

\* upgradeToAndCall whose _authorizeUpgrade accepts every caller
upgradeToAndCall_Unguarded(caller) ==
    /\ variant = "UP"
    /\ implementation < MaxUpgrades
    /\ last' = Call("upgradeToAndCall", caller, 0, "ok")
    /\ implementation' = implementation + 1
    /\ UNCHANGED <<variant, pending, claimedBitMap, token, initialized, merkleRoot, isClaimed, hasClaimed,
                   isPaused, totalClaimed, maxClaimAmount, roles, balances,
                   totalSupply, minters>>

\* upgradeToAndCall whose new logic starts from empty claim records
upgradeToAndCall_FreshStorage(caller) ==
    /\ variant = "UP"
    /\ implementation < MaxUpgrades
    /\ LET r == CheckRole(DEFAULT_ADMIN_ROLE, caller)
       IN  /\ last' = Call("upgradeToAndCall", caller, 0, r)
           /\ implementation' = IF r = "ok" THEN implementation + 1 ELSE implementation
           /\ hasClaimed' = IF r = "ok" THEN [a \in Accounts |-> FALSE] ELSE hasClaimed
    /\ UNCHANGED <<variant, pending, claimedBitMap, token, initialized, merkleRoot, isClaimed, isPaused,
                   totalClaimed, maxClaimAmount, roles, balances, totalSupply,
                   minters>>

\* upgradeToAndCall(newImplementation, ""): the new logic is again Airdrop
upgradeToAndCall(caller) ==
    /\ variant = "UP"
    /\ implementation < MaxUpgrades
    /\ LET r == CheckRole(DEFAULT_ADMIN_ROLE, caller)
       IN  /\ last' = Call("upgradeToAndCall", caller, 0, r)
           /\ implementation' = IF r = "ok" THEN implementation + 1 ELSE implementation
    /\ UNCHANGED <<variant, pending, claimedBitMap, token, initialized, merkleRoot, isClaimed, hasClaimed, isPaused, totalClaimed,
                   maxClaimAmount, roles, balances, totalSupply, minters>>

\* outcome of claim in whichever contract is deployed
ClaimResult(caller, amount, proof) ==
    IF variant = "AC" THEN ClaimResultAC(caller, amount, proof)
    ELSE ClaimResultUP(caller, amount, proof)

\* the guards of claim in whichever contract is deployed
Validate(caller, amount, proof) ==
    IF variant = "AC" THEN ValidateAC(caller, amount, proof)
    ELSE ValidateUP(caller, amount, proof)

\* the claim record of the deployed contract
Claimed(account) ==
    IF variant = "AC" THEN isClaimed[account] ELSE hasClaimed[account]

Next ==
    \/ \E c \in Accounts, amt \in ClaimAmounts, p \in ProofInputsAC : ClaimAC(c, amt, p)
    \/ \E c \in Accounts, amt \in ClaimAmounts, p \in ProofInputsUP : ClaimUP(c, amt, p)
    \/ \E c \in Senders : pause(c)
    \/ \E c \in Senders : unpause(c)
    \/ \E c \in Senders, m \in NewMaxChoices : setMaxClaimAmount(c, m)
    \/ \E c \in Senders, amt \in 0..(MaxFunding + 1) : emergencyWithdraw(c, amt)
    \/ \E c \in Senders, a \in RoleTargetsAC : grantAdminRole(c, a)
    \/ \E c \in Senders, a \in RoleTargetsAC : revokeAdminRole(c, a)
    \/ \E c \in Senders, a \in RoleTargetsAC : grantPauserRole(c, a)
    \/ \E c \in Senders, a \in RoleTargetsAC : revokePauserRole(c, a)
    \/ \E c \in Senders, a \in RoleTargetsAC : grantClaimManagerRole(c, a)
    \/ \E c \in Senders, a \in RoleTargetsAC : revokeClaimManagerRole(c, a)
    \/ \E c \in Senders, r \in RolesOf, a \in RoleTargets : grantRole(c, r, a)
    \/ \E c \in Senders, r \in RolesOf, a \in RoleTargets : revokeRole(c, r, a)
    \/ \E c \in Senders, r \in RolesOf, a \in RoleTargets : renounceRole(c, r, a)
    \/ \E c \in Senders : grantMinterRole(c, AirdropAddress)
    \/ \E c \in Senders : revokeMinterRole(c, AirdropAddress)
    \/ \E c \in Senders, root \in RootChoices : setMerkleRoot(c, root)
    \/ \E c \in Senders : upgradeToAndCall(c)
    \/ \E c \in Senders, t \in TokenChoices, root \in RootChoices :
          initialize(c, t, root, c)

Spec == Init /\ [][Next]_vars

\* AirdropWithAccessControl holding tokens minted straight to it: the calls
\* that move tokens or decide who may move them
InitFunded == InitCommon /\ InitAC

NextFunded ==
    \/ \E c \in Senders, amt \in 1..MaxFunding : mint(c, AirdropAddress, amt)
    \/ \E c \in Senders, amt \in 0..(MaxFunding + 1) : emergencyWithdraw(c, amt)
    \/ \E t \in CommittedAC : ClaimAC(t[1], t[2], t[3])
    \/ \E c \in Senders : pause(c)
    \/ \E c \in Senders : unpause(c)
    \/ \E c \in Senders, a \in RoleTargetsAC : grantAdminRole(c, a)
    \/ \E c \in Senders, a \in RoleTargetsAC : revokeAdminRole(c, a)
    \/ \E c \in Senders : grantMinterRole(c, AirdropAddress)
    \/ \E c \in Senders : revokeMinterRole(c, AirdropAddress)

SpecFunded == InitFunded /\ [][NextFunded]_vars

\* ----------------------------------------- scripts/merkle/generateMerkle.ts
\* recipients.json: a list of distinct recipients with nonzero amounts
RecipientLists ==
    {rs \in UNION {[1..n -> [address : Users, amount : 1..MaxAmount]] :
                     n \in 1..MaxRecipients} :
        \A i, j \in 1..Len(rs) : rs[i].address = rs[j].address => i = j}

\* leaf(index, account, amount):
\* keccak256(solidityPacked(["uint256", "address", "uint256"], ...))
leaf(index, account, amount) == <<0, index, account, amount>>

\* the leaves of the generated tree; the index of a recipient is its
\* position in recipients.json, counted from 0
GeneratedLeaves(rs) ==
    [i \in 1..Len(rs) |-> leaf(i - 1, rs[i].address, rs[i].amount)]

\* merkle.json: the root and, per recipient, index, account, amount and proof
merkleJson(rs) ==
    [root |-> TreeRoot(GeneratedLeaves(rs)),
     recipients |-> [i \in 1..Len(rs) |->
                       [index |-> i - 1,
                        account |-> rs[i].address,
                        amount |-> rs[i].amount,
                        proof |-> GetProof(GeneratedLeaves(rs), i)]]]

\* the merkle.json files of all recipient lists
MerkleFiles == {merkleJson(rs) : rs \in RecipientLists}
GeneratedRoots == {m.root : m \in MerkleFiles}

\* the Airdrop proxy initialised with the root of a generated merkle.json
InitGenerated ==
    /\ InitCommon
    /\ variant = "UP"
    /\ token = TokenAddress
    /\ initialized = TRUE
    /\ merkleRoot \in GeneratedRoots
    /\ isPaused = FALSE
    /\ totalClaimed = 0
    /\ maxClaimAmount = 0
    /\ roles = [r \in AllRoles |-> IF r = DEFAULT_ADMIN_ROLE THEN {Owner} ELSE {}]

\* scripts/airdrop/claim.ts run by the i-th recipient of the merkle.json whose
\* root the contract holds: it stops if the contract says the address has
\* claimed, and otherwise sends claim(amount, proof) from merkle.json
claimScript(merkleData, i) ==
    /\ merkleData.root = merkleRoot
    /\ LET recipient == merkleData.recipients[i]
       IN  /\ ~hasClaimed[recipient.account]
           /\ ClaimUP(recipient.account, recipient.amount, recipient.proof)

\* scripts/airdrop/setMerkleRoot.ts run by the deployer after merkle.json was
\* regenerated: nothing is sent when the contract already holds that root
setMerkleRootScript(merkleData) ==
    /\ merkleData.root # merkleRoot
    /\ setMerkleRoot(Owner, merkleData.root)

NextGenerated ==
    \/ \E m \in MerkleFiles : \E i \in 1..Len(m.recipients) : claimScript(m, i)
    \/ \E m \in MerkleFiles : setMerkleRootScript(m)
    \/ \E c \in Senders : grantMinterRole(c, AirdropAddress)
    \/ \E c \in Senders : revokeMinterRole(c, AirdropAddress)

SpecGenerated == InitGenerated /\ [][NextGenerated]_vars

\* ------------------------------------------------- test/Claim.test.ts trees
\* merkleTree and recipientsWithProofs: the sorted-pair tree over the leaves
\* keccak256(solidityPacked(["address", "uint256"], ...)) of a recipient list
recipientsWithProofs(rs) ==
    [leaves |-> LeavesOf(rs),
     root |-> TreeRoot(LeavesOf(rs)),
     proofs |-> [i \in 1..Len(rs) |->
                   [address |-> rs[i].address,
                    amount |-> rs[i].amount,
                    proof |-> GetProof(LeavesOf(rs), i)]]]

\* the trees of all recipient lists
TestTrees == {recipientsWithProofs(rs) : rs \in RecipientLists}

\* AirdropWithAccessControl deployed with the root of such a tree and made a
\* minter of the token
InitTree ==
    /\ variant = "AC"
    /\ token = TokenAddress
    /\ initialized = FALSE
    /\ merkleRoot \in {tree.root : tree \in TestTrees}
    /\ isClaimed = [a \in Accounts |-> FALSE]
    /\ claimedBitMap = [w \in WordIndices |-> 0]
    /\ pending = <<>>
    /\ hasClaimed = [a \in Accounts |-> FALSE]
    /\ isPaused = FALSE
    /\ totalClaimed = 0
    /\ maxClaimAmount = DefaultMaxClaimAmount
    /\ roles = [r \in AllRoles |-> {Owner}]
    /\ implementation = 0
    /\ balances = [h \in Holders |-> 0]
    /\ totalSupply = 0
    /\ minters = {Owner, AirdropAddress}
    /\ last = NoCall

\* the i-th recipient of the list the root was built from claims with the
\* amount and proof of recipientsWithProofs
claimListed(merkleTree, i) ==
    /\ merkleTree.root = merkleRoot
    /\ LET recipient == merkleTree.proofs[i]
       IN  ClaimAC(recipient.address, recipient.amount, recipient.proof)

NextTree ==
    \/ \E tree \in TestTrees : \E i \in 1..Len(tree.proofs) : claimListed(tree, i)
    \/ pause(Owner)
    \/ unpause(Owner)

SpecTree == InitTree /\ [][NextTree]_vars

\* ------------------------------------------------ Airdrop with large amounts
\* recipient lists that commit user1 to an amount at the top of the uint256
\* range next to an ordinary entitlement of user2
LargeRounds ==
    {<< [address |-> 1, amount |-> largeAmount], [address |-> 2, amount |-> small] >> :
        largeAmount \in {MaxUint256 - 1, MaxUint256}, small \in 1..MaxAmount}

LargeTrees == {recipientsWithProofs(rs) : rs \in LargeRounds}

\* the proxy initialised with the root of such a list
InitLarge ==
    /\ InitCommon
    /\ variant = "UP"
    /\ token = TokenAddress
    /\ initialized = TRUE
    /\ merkleRoot \in {tree.root : tree \in LargeTrees}
    /\ isPaused = FALSE
    /\ totalClaimed = 0
    /\ maxClaimAmount = 0
    /\ roles = [r \in AllRoles |-> IF r = DEFAULT_ADMIN_ROLE THEN {Owner} ELSE {}]

NextLarge ==
    \/ \E tree \in LargeTrees : \E i \in 1..Len(tree.proofs), c \in {1, 2} :
          ClaimUP(c, tree.proofs[i].amount, tree.proofs[i].proof)
    \/ \E tree \in LargeTrees : setMerkleRoot(Owner, tree.root)
    \/ grantMinterRole(Owner, AirdropAddress)
    \/ revokeMinterRole(Owner, AirdropAddress)

SpecLarge == InitLarge /\ [][NextLarge]_vars

\* -------------------------------------------------------- MerkleDistributor
\* 1 << bitIndex
RECURSIVE ShiftLeft(_, _)
ShiftLeft(x, bits) == IF bits = 0 THEN x ELSE ShiftLeft(2 * x, bits - 1)

\* word & mask, for a mask with a single bit set
BitAnd(word, mask) == IF (word \div mask) % 2 = 1 THEN mask ELSE 0

\* word | mask, for a mask with a single bit set
BitOr(word, mask) == IF BitAnd(word, mask) = mask THEN word ELSE word + mask

\* MerkleDistributor.isClaimed(index)
isClaimedIndex(index) ==
    LET wordIndex == index \div WordBits
        bitIndex == index % WordBits
        claimedWord == claimedBitMap[wordIndex]
        mask == ShiftLeft(1, bitIndex)
    IN  BitAnd(claimedWord, mask) = mask

\* _setClaimed that overwrites the word instead of or-ing the bit into it
setClaimed_Overwrite(index) ==
    LET wordIndex == index \div WordBits
        bitIndex == index % WordBits
    IN  [claimedBitMap EXCEPT ![wordIndex] = ShiftLeft(1, bitIndex)]

\* MerkleDistributor._setClaimed(index): the bitmap after the call
setClaimed(index) ==
    LET wordIndex == index \div WordBits
        bitIndex == index % WordBits
    IN  [claimedBitMap EXCEPT ![wordIndex] = BitOr(@, ShiftLeft(1, bitIndex))]

\* byte strings are sequences of fields; keccak256 of a byte string
keccak256(data) == <<0>> \o data

\* abi.encodePacked(index, account, amount): a 32-byte word, the 20 bytes of
\* the address, a 32-byte word
encodePacked(index, account, amount) == <<index, account, amount>>

\* the leaf MerkleDistributor.claim recomputes
node(index, account, amount) == keccak256(encodePacked(index, account, amount))

\* IERC20.transfer as the distributor sees it.  MyMintableToken (ERC20 of
\* OpenZeppelin) reverts instead of returning false; a token that is not
\* MyMintableToken may report a shortfall by returning false.
TransferResult(from, to, amount) ==
    IF token = TokenAddress
    THEN IF to = ZeroAddress THEN "ERC20InvalidReceiver"
         ELSE IF balances[from] < amount THEN "ERC20InsufficientBalance"
         ELSE "ok"
    ELSE IF balances[from] < amount THEN "false" ELSE "ok"

\* transfer that debits the sender twice
Transferred_DebitTwice(from, to, amount) ==
    [balances EXCEPT ![from] = @ - 2 * amount, ![to] = @ + amount]

Transferred(from, to, amount) ==
    IF from = to THEN balances
    ELSE [balances EXCEPT ![from] = @ - amount, ![to] = @ + amount]

AlreadyClaimedMD == "MerkleDistributor: Drop already claimed."
InvalidProofMD == "MerkleDistributor: Invalid proof."
TransferFailedMD == "MerkleDistributor: Transfer failed."

\* claim without the isClaimed(index) check
ClaimResultMD_NoClaimedCheck(index, account, amount, merkleProof) ==
    IF ~Verify(merkleProof, merkleRoot, node(index, account, amount))
    THEN InvalidProofMD
    ELSE LET t == TransferResult(DistributorAddress, account, amount)
         IN  IF t = "false" THEN TransferFailedMD ELSE t

\* the requires of MerkleDistributor.claim, in source order
ClaimResultMD(index, account, amount, merkleProof) ==
    IF isClaimedIndex(index) THEN AlreadyClaimedMD
    ELSE IF ~Verify(merkleProof, merkleRoot, node(index, account, amount))
    THEN InvalidProofMD
    ELSE LET t == TransferResult(DistributorAddress, account, amount)
         IN  IF t = "false" THEN TransferFailedMD ELSE t

EvClaimedIndex(index, account, amount) == <<"Claimed", index, account, amount>>

\* MerkleDistributor.claim(index, account, amount, merkleProof) sent by `caller`
ClaimMD(caller, index, account, amount, merkleProof) ==
    /\ variant = "MD"
    /\ LET r == ClaimResultMD(index, account, amount, merkleProof)
       IN  /\ last' = Emit(Call("claim", caller, amount, r),
                           EvClaimedIndex(index, account, amount))
           /\ claimedBitMap' = IF r = "ok" THEN setClaimed(index) ELSE claimedBitMap
           /\ balances' = IF r = "ok"
                          THEN Transferred(DistributorAddress, account, amount)
                          ELSE balances
    /\ UNCHANGED <<variant, pending, token, initialized, merkleRoot, isClaimed,
                   hasClaimed, isPaused, totalClaimed, maxClaimAmount, roles,
                   implementation, totalSupply, minters>>

\* ------------------------------------------------ scripts/generateMerkle.ts
\* zeroPadValue(toBeHex(BigInt(value)), 32): the 32-byte big-endian word
toBeHex32(value) == <<value>>

\* zeroPadValue(account, 32): twelve zero bytes in front of the 20 bytes of
\* the address
zeroPadValue(account) == <<0, account>>

\* leaf(index, account, amount) of scripts/generateMerkle.ts
leafPadded(index, account, amount) ==
    keccak256(toBeHex32(index) \o zeroPadValue(account) \o toBeHex32(amount))

PaddedLeaves(rs) ==
    [i \in 1..Len(rs) |-> leafPadded(i - 1, rs[i].address, rs[i].amount)]

\* merkle.json of scripts/generateMerkle.ts: the root and the list `proofs`
merkleJsonPadded(rs) ==
    [root |-> TreeRoot(PaddedLeaves(rs)),
     proofs |-> [i \in 1..Len(rs) |->
                   [index |-> i - 1,
                    account |-> rs[i].address,
                    amount |-> rs[i].amount,
                    proof |-> GetProof(PaddedLeaves(rs), i)]]]

\* the same list committed with the leaves the contract recomputes
PackedLeaves(rs) ==
    [i \in 1..Len(rs) |-> node(i - 1, rs[i].address, rs[i].amount)]

merkleJsonPacked(rs) ==
    [root |-> TreeRoot(PackedLeaves(rs)),
     proofs |-> [i \in 1..Len(rs) |->
                   [index |-> i - 1,
                    account |-> rs[i].address,
                    amount |-> rs[i].amount,
                    proof |-> GetProof(PackedLeaves(rs), i)]]]

\* recipients.json of a distributor: user1, then user2, then user3, each
\* with a nonzero amount
DistributorLists == {rs \in RecipientLists : \A i \in 1..Len(rs) : rs[i].address = i}

PaddedFiles == {merkleJsonPadded(rs) : rs \in DistributorLists}
PackedFiles == {merkleJsonPacked(rs) : rs \in DistributorLists}
DistributorFiles == PaddedFiles \cup PackedFiles

\* totalAmount of the deploy script: the amounts of merkleData.proofs, added up
RECURSIVE totalAmount(_)
totalAmount(proofs) ==
    IF proofs = <<>> THEN 0 ELSE Head(proofs).amount + totalAmount(Tail(proofs))

\* tokens a MerkleDistributor deployment passes to the constructor
NonStandardToken == 8
DistributorTokens == {TokenAddress, NonStandardToken}

\* MerkleDistributor deployed with the root of a merkle.json.  The deploy
\* script mints totalAmount of MyMintableToken to it; a deployment made
\* without the script holds nothing.
InitMD ==
    /\ variant = "MD"
    /\ initialized = FALSE
    /\ isClaimed = [a \in Accounts |-> FALSE]
    /\ hasClaimed = [a \in Accounts |-> FALSE]
    /\ claimedBitMap = [w \in WordIndices |-> 0]
    /\ pending = <<>>
    /\ isPaused = FALSE
    /\ totalClaimed = 0
    /\ maxClaimAmount = 0
    /\ roles = [r \in AllRoles |-> {}]
    /\ implementation = 0
    /\ minters = {Owner}
    /\ last = NoCall
    /\ \E merkleData \in DistributorFiles :
          /\ merkleRoot = merkleData.root
          /\ \/ /\ token = TokenAddress
                /\ totalSupply = totalAmount(merkleData.proofs)
             \/ /\ merkleData \in PackedFiles
                /\ token \in DistributorTokens
                /\ totalSupply = 0
          /\ balances = [h \in Accounts \cup {DistributorAddress} |->
                           IF h = DistributorAddress THEN totalSupply ELSE 0]

\* scripts/claim: an entry of the merkle.json the distributor was deployed
\* from, sent by any account
claimEntry(merkleData, caller, i) ==
    /\ merkleData.root = merkleRoot
    /\ LET p == merkleData.proofs[i]
       IN  ClaimMD(caller, p.index, p.account, p.amount, p.proof)

\* an entry of merkle.json sent with one argument replaced
claimAltered(merkleData, caller, i) ==
    /\ merkleData.root = merkleRoot
    /\ LET p == merkleData.proofs[i]
       IN  \/ \E index \in Indices \ {p.index} :
                 ClaimMD(caller, index, p.account, p.amount, p.proof)
           \/ \E account \in Users \ {p.account} :
                 ClaimMD(caller, p.index, account, p.amount, p.proof)
           \/ \E amount \in (0..MaxAmount) \ {p.amount} :
                 ClaimMD(caller, p.index, p.account, amount, p.proof)
           \/ ClaimMD(caller, p.index, p.account, p.amount,
                      Truncated(p.proof) \o <<NewRoot>>)

NextMD ==
    \/ \E m \in DistributorFiles : \E c \in Senders, i \in 1..Len(m.proofs) :
          claimEntry(m, c, i)
    \/ \E m \in DistributorFiles : \E c \in Senders, i \in 1..Len(m.proofs) :
          claimAltered(m, c, i)

SpecMD == InitMD /\ [][NextMD]_vars

\* ----------------------------------------------- claim, step by step
\* A claim runs its checks, writes its record, and then calls the token
\* (mint in the airdrop contracts, transfer in the distributor).  While that
\* call runs, a token with hooks may call claim again.  A frame of `pending`
\* is a claim inside its token call, with the storage a revert restores.
Frame(caller, index, account, amount) ==
    [caller |-> caller, index |-> index, account |-> account, amount |-> amount,
     saved |-> <<isClaimed, hasClaimed, claimedBitMap, totalClaimed,
                 balances, totalSupply>>]

\* the checks of claim, per contract
ChecksOfClaim(caller, index, account, amount, proof) ==
    IF variant = "AC" THEN ValidateAC(caller, amount, proof)
    ELSE IF variant = "UP" THEN ValidateUP(caller, amount, proof)
    ELSE IF isClaimedIndex(index) THEN AlreadyClaimedMD
    ELSE IF ~Verify(proof, merkleRoot, node(index, account, amount)) THEN InvalidProofMD
    ELSE "ok"

\* claim that writes no record before it calls the token
BeginClaim_NoRecord(caller, index, account, amount, proof) ==
    /\ Len(pending) < MaxDepth
    /\ pending # <<>> => token = NonStandardToken
    /\ LET v == ChecksOfClaim(caller, index, account, amount, proof)
       IN  IF v = "ok"
           THEN /\ pending' = Append(pending, Frame(caller, index, account, amount))
                /\ UNCHANGED <<isClaimed, totalClaimed, hasClaimed, claimedBitMap, last>>
           ELSE /\ last' = Call("claim", caller, amount, v)
                /\ UNCHANGED <<pending, isClaimed, hasClaimed, claimedBitMap,
                               totalClaimed>>
    /\ UNCHANGED <<variant, token, initialized, merkleRoot, isPaused,
                   maxClaimAmount, roles, implementation, balances,
                   totalSupply, minters>>

\* claim up to its token call: the checks, then the record.  A claim made
\* while another is pending comes from a callback of the token.
BeginClaim(caller, index, account, amount, proof) ==
    /\ Len(pending) < MaxDepth
    /\ pending # <<>> => token = NonStandardToken
    /\ LET v == ChecksOfClaim(caller, index, account, amount, proof)
       IN  IF v = "ok"
           THEN /\ pending' = Append(pending, Frame(caller, index, account, amount))
                /\ isClaimed' = IF variant = "AC"
                                THEN [isClaimed EXCEPT ![caller] = TRUE]
                                ELSE isClaimed
                /\ totalClaimed' = IF variant = "AC" THEN totalClaimed + amount
                                   ELSE totalClaimed
                /\ hasClaimed' = IF variant = "UP"
                                 THEN [hasClaimed EXCEPT ![caller] = TRUE]
                                 ELSE hasClaimed
                /\ claimedBitMap' = IF variant = "MD" THEN setClaimed(index)
                                    ELSE claimedBitMap
                /\ UNCHANGED last
           ELSE /\ last' = Call("claim", caller, amount, v)
                /\ UNCHANGED <<pending, isClaimed, hasClaimed, claimedBitMap,
                               totalClaimed>>
    /\ UNCHANGED <<variant, token, initialized, merkleRoot, isPaused,
                   maxClaimAmount, roles, implementation, balances,
                   totalSupply, minters>>

\* the token call of the innermost pending claim returns; a token that is
\* not MyMintableToken may also revert of its own accord (`reverts`)
TokenCallResult(f, reverts) ==
    IF token # TokenAddress /\ reverts THEN "Reverted"
    ELSE IF variant = "MD"
    THEN LET t == TransferResult(DistributorAddress, f.account, f.amount)
         IN  IF t = "false" THEN TransferFailedMD ELSE t
    ELSE MintResult(AirdropAddress, f.amount)

\* claim from its token call to its end: the event on success, and on
\* failure the revert of everything done since the claim began
EndClaim(reverts) ==
    /\ pending # <<>>
    /\ LET f == pending[Len(pending)]
           r == TokenCallResult(f, reverts)
           ev == IF variant = "AC" THEN EvClaimed(f.caller, f.amount)
                 ELSE IF variant = "UP" THEN EvAirdropClaimed(f.caller, f.amount)
                 ELSE EvClaimedIndex(f.index, f.account, f.amount)
       IN  /\ pending' = SubSeq(pending, 1, Len(pending) - 1)
           /\ last' = Emit(Call("claim", f.caller, f.amount, r), ev)
           /\ IF r = "ok"
              THEN /\ balances' = IF variant = "MD"
                                  THEN Transferred(DistributorAddress, f.account, f.amount)
                                  ELSE Minted(f.account, f.amount)
                   /\ totalSupply' = IF variant = "MD" THEN totalSupply
                                     ELSE totalSupply + f.amount
                   /\ UNCHANGED <<isClaimed, hasClaimed, claimedBitMap, totalClaimed>>
              ELSE /\ isClaimed' = f.saved[1]
                   /\ hasClaimed' = f.saved[2]
                   /\ claimedBitMap' = f.saved[3]
                   /\ totalClaimed' = f.saved[4]
                   /\ balances' = f.saved[5]
                   /\ totalSupply' = f.saved[6]
    /\ UNCHANGED <<variant, token, initialized, merkleRoot, isPaused,
                   maxClaimAmount, roles, implementation, minters>>

\* the entries committed to the three contracts
EntriesMDFixed == merkleJsonPacked(Round1).proofs
CommittedEntries ==
    IF variant = "AC" THEN {[index |-> 0, account |-> t[1], amount |-> t[2], proof |-> t[3]] :
                              t \in CommittedAC}
    ELSE IF variant = "UP" THEN {[index |-> 0, account |-> t[1], amount |-> t[2], proof |-> t[3]] :
                                   t \in CommittedR1}
    ELSE {EntriesMDFixed[i] : i \in 1..Len(EntriesMDFixed)}

\* each contract deployed with a committed list and allowed to issue tokens,
\* over MyMintableToken or over a token with hooks
InitReentrant ==
    /\ variant \in {"AC", "UP", "MD"}
    /\ token \in DistributorTokens
    /\ pending = <<>>
    /\ initialized = (variant = "UP")
    /\ merkleRoot = IF variant = "AC" THEN RootAC
                    ELSE IF variant = "UP" THEN Root1
                    ELSE merkleJsonPacked(Round1).root
    /\ isClaimed = [a \in Accounts |-> FALSE]
    /\ hasClaimed = [a \in Accounts |-> FALSE]
    /\ claimedBitMap = [w \in WordIndices |-> 0]
    /\ isPaused = FALSE
    /\ totalClaimed = 0
    /\ maxClaimAmount = IF variant = "AC" THEN DefaultMaxClaimAmount ELSE 0
    /\ roles = [r \in AllRoles |-> IF variant = "MD" THEN {} ELSE {Owner}]
    /\ implementation = 0
    /\ minters = {Owner, AirdropAddress}
    /\ totalSupply = IF variant = "MD" THEN totalAmount(EntriesMDFixed) ELSE 0
    /\ balances = [h \in Holders \cup {DistributorAddress} |->
                     IF h = DistributorAddress THEN totalSupply ELSE 0]
    /\ last = NoCall

NextReentrant ==
    \/ \E e \in CommittedEntries, c \in Users :
          BeginClaim(IF variant = "MD" THEN c ELSE e.account,
                     e.index, e.account, e.amount, e.proof)
    \/ \E reverts \in BOOLEAN : EndClaim(reverts)

SpecReentrant == InitReentrant /\ [][NextReentrant]_vars

\* ===================================================================
\* Properties
\* ===================================================================
\* the proofs callers submit to the deployed contract
ProofsNow == IF variant = "AC" THEN ProofInputsAC ELSE ProofInputsUP

\* the triples the current root commits to
CommittedNow ==
    IF merkleRoot = RootAC THEN CommittedAC
    ELSE IF merkleRoot = Root1 THEN CommittedR1
    ELSE IF merkleRoot = Root2 THEN CommittedR2
    ELSE {}

\* the amount a recipient list gives an account (0 when it is absent)
AmountIn(recipients, account) ==
    IF \E i \in 1..Len(recipients) : recipients[i].address = account
    THEN (CHOOSE r \in {recipients[i] : i \in 1..Len(recipients)} : r.address = account).amount
    ELSE 0

ClaimSucceeded == last.op = "claim" /\ last.result = "ok"
ClaimFailed == last.op = "claim" /\ last.result # "ok"

\* ------------------------------------------------------------------- C1
\* C1 as stated: once an address has claimed, every later claim by it fails
\* with AlreadyClaimed, in both contracts.
C1_Original ==
    \A c \in Accounts :
        Claimed(c) =>
            \A amt \in ClaimAmounts, p \in ProofsNow :
                ClaimResult(c, amt, p) = "AlreadyClaimed"

\* C1 (amended): in both contracts an address has at most one successful
\* claim: once it has claimed, every later claim by it, whatever the amount
\* and proof, fails -- with AlreadyClaimed, except that a paused
\* AirdropWithAccessControl answers AirdropPaused first.  So what a claimant
\* holds after a successful claim is what that one claim minted.
C1_AtMostOneClaim ==
    /\ \A c \in Accounts :
         Claimed(c) =>
           \A amt \in ClaimAmounts, p \in ProofsNow :
             ClaimResult(c, amt, p) =
               IF variant = "AC" /\ isPaused THEN "AirdropPaused" ELSE "AlreadyClaimed"
    /\ ClaimSucceeded => (Claimed(last.caller) /\ balances[last.caller] = last.amount)

\* user1 has claimed, tried again and was refused with AlreadyClaimed
C1_Witness ==
    /\ last.op = "claim" /\ last.result = "AlreadyClaimed"
    /\ Claimed(1)
    /\ \A a \in Accounts \ {1} : ~Claimed(a)

\* ------------------------------------------------------------------- C2
\* an account that claimed its Round1 amount and is committed to a different
\* amount by the current root Root2
ReclaimCase(t) ==
    /\ variant = "UP"
    /\ merkleRoot = Root2
    /\ t \in CommittedR2
    /\ AmountIn(Round1, t[1]) \notin {0, t[2]}
    /\ hasClaimed[t[1]]
    /\ balances[t[1]] = AmountIn(Round1, t[1])
    /\ MintAllowed(AirdropAddress)

\* C2 as stated: after claiming under R1 and a rotation to R2 that commits the
\* same address to a different entitlement, the address's claim with its R2
\* proof succeeds.
C2_Original ==
    \A t \in CommittedR2 :
        ReclaimCase(t) => ClaimResultUP(t[1], t[2], t[3]) = "ok"

\* C2 (amended): after claiming under R1 and a rotation to R2 that commits the
\* same address to a different entitlement, the address's claim with its valid
\* R2 proof fails with AlreadyClaimed: the record is kept per address, not per
\* root, and no address is ever minted a second entitlement.
C2_NoReclaimAfterRotation ==
    /\ \A t \in CommittedR2 :
         ReclaimCase(t) => ClaimResultUP(t[1], t[2], t[3]) = "AlreadyClaimed"
    /\ variant = "UP" =>
         \A a \in Accounts :
            balances[a] \in {0, AmountIn(Round1, a), AmountIn(Round2, a)}

\* user1 claimed 100 under Root1, the root was rotated to Root2, and user1's
\* next claim was refused
C2_Witness ==
    /\ \E t \in CommittedR2 : t[1] = 1 /\ ReclaimCase(t)
    /\ last.op = "claim" /\ last.result = "AlreadyClaimed"

\* ------------------------------------------------------------------- C3
\* the guards of claim that come before the proof verification all pass
PassesEarlierChecks(c, amt) ==
    /\ ~Claimed(c)
    /\ amt # 0
    /\ variant = "AC" => (~isPaused /\ amt <= maxClaimAmount)

\* C3 as stated: every claim whose (caller, amount, proof) is not a committed
\* triple fails with InvalidProof.
C3_Original ==
    \A c \in Accounts, amt \in ClaimAmounts, p \in ProofsNow :
        <<c, amt, p>> \notin CommittedNow => ClaimResult(c, amt, p) = "InvalidProof"

\* C3 (amended): a claim whose (caller, amount, proof) is not a committed
\* triple always fails, and it fails with InvalidProof whenever it passes the
\* checks made before the proof is verified (not paused, caller not yet
\* claimed, amount nonzero and within maxClaimAmount).
C3_TamperRejection ==
    \A c \in Accounts, amt \in ClaimAmounts, p \in ProofsNow :
        <<c, amt, p>> \notin CommittedNow =>
            /\ ClaimResult(c, amt, p) # "ok"
            /\ PassesEarlierChecks(c, amt) => ClaimResult(c, amt, p) = "InvalidProof"

\* a claim was refused with InvalidProof while every recipient of the
\* current root could still claim
C3_Witness ==
    /\ last.op = "claim" /\ last.result = "InvalidProof"
    /\ CommittedNow # {}
    /\ \A t \in CommittedNow : ClaimResult(t[1], t[2], t[3]) = "ok"

\* ------------------------------------------------------------------- C4
\* the preconditions of a successful claim in AirdropWithAccessControl
EligibleAC(c, amt, p) ==
    /\ ~isPaused
    /\ ~isClaimed[c]
    /\ 0 < amt /\ amt <= maxClaimAmount
    /\ Verify(p, merkleRoot, Leaf(c, amt))
    /\ MintAllowed(AirdropAddress)

\* what a successful claim of amt by c does, and nothing else
ClaimEffectAC(c, amt) ==
    /\ isClaimed' = [isClaimed EXCEPT ![c] = TRUE]
    /\ totalClaimed' = totalClaimed + amt
    /\ balances' = [balances EXCEPT ![c] = @ + amt]
    /\ totalSupply' = totalSupply + amt
    /\ UNCHANGED <<variant, pending, claimedBitMap, token, initialized, merkleRoot, hasClaimed, isPaused, maxClaimAmount,
                   roles, implementation, minters>>

\* C4: in AirdropWithAccessControl a claim that is not paused, by a caller
\* who has not claimed, with 0 < amount <= maxClaimAmount, a verifying proof
\* and the contract holding MINTER_ROLE succeeds, and a successful claim does
\* exactly this: isClaimed[caller] becomes true, totalClaimed and the caller's
\* balance grow by amount, nothing else changes.
C4_ClaimEffect ==
    /\ [](variant = "AC" =>
            \A c \in Accounts, amt \in ClaimAmounts, p \in ProofsNow :
                EligibleAC(c, amt, p) <=> ClaimResultAC(c, amt, p) = "ok")
    /\ [][(variant = "AC" /\ last'.op = "claim" /\ last'.result = "ok") =>
            /\ \E p \in ProofInputsAC : EligibleAC(last'.caller, last'.amount, p)
            /\ ClaimEffectAC(last'.caller, last'.amount)]_vars

\* user2 claimed its 200 from AirdropWithAccessControl
C4_Witness ==
    /\ variant = "AC"
    /\ last = Emit(Call("claim", 2, 2, "ok"), EvClaimed(2, 2))
    /\ isClaimed[2] /\ balances[2] = 2 /\ totalClaimed >= 2

\* ------------------------------------------------------------------- C5
\* C5: a claim that fails, for whatever reason, changes no contract or token
\* state (claim records and totalClaimed included), and after it every
\* recipient who has not claimed still succeeds with its committed amount and
\* proof.
C5_FailedClaimNoEffect ==
    /\ [][(last'.op = "claim" /\ last'.result # "ok") => UNCHANGED contractState]_vars
    /\ [](ClaimFailed =>
            \A t \in CommittedNow :
                (/\ ~Claimed(t[1])
                 /\ MintAllowed(AirdropAddress)
                 /\ variant = "AC" => (~isPaused /\ t[2] <= maxClaimAmount))
                => ClaimResult(t[1], t[2], t[3]) = "ok")

\* after user1's claim, a claim failed and user2 is still unclaimed and eligible
C5_Witness ==
    /\ variant = "AC"
    /\ ClaimFailed
    /\ isClaimed[1] /\ ~isClaimed[2] /\ totalClaimed = 1
    /\ \E t \in CommittedAC : t[1] = 2 /\ ClaimResultAC(t[1], t[2], t[3]) = "ok"

\* ------------------------------------------------------------------- C6
\* C6: while AirdropWithAccessControl is paused every claim fails with
\* AirdropPaused, whatever the proof; a successful unpause clears the flag and
\* every claim that was refused only for the pause then succeeds.
C6_PauseGating ==
    /\ []((variant = "AC" /\ isPaused) =>
            \A c \in Accounts, amt \in ClaimAmounts, p \in ProofsNow :
                ClaimResultAC(c, amt, p) = "AirdropPaused")
    /\ [][(last'.op = "unpause" /\ last'.result = "ok") =>
            /\ ~isPaused'
            /\ \A c \in Accounts, amt \in ClaimAmounts, p \in ProofsNow :
                 (/\ ~isClaimed[c]
                  /\ 0 < amt /\ amt <= maxClaimAmount
                  /\ Verify(p, merkleRoot, Leaf(c, amt))
                  /\ MintAllowed(AirdropAddress))
                 => (ClaimResultAC(c, amt, p))' = "ok"]_vars

\* a claim was refused with AirdropPaused although user1's proof is valid
C6_Witness ==
    /\ variant = "AC" /\ isPaused
    /\ last.op = "claim" /\ last.result = "AirdropPaused"
    /\ ~isClaimed[1] /\ MintAllowed(AirdropAddress)

\* ------------------------------------------------------------------- C7
\* C7 as stated: a claim of more than maxClaimAmount fails with
\* ExceedsMaxClaimAmount.
C7_Original ==
    variant = "AC" =>
        \A c \in Accounts, amt \in ClaimAmounts, p \in ProofsNow :
            amt > maxClaimAmount => ClaimResultAC(c, amt, p) = "ExceedsMaxClaimAmount"

\* C7 (amended): a claim of more than maxClaimAmount always fails, valid proof
\* or not, and it fails with ExceedsMaxClaimAmount when the contract is not
\* paused and the caller has not claimed; no successful claim mints more than
\* the maxClaimAmount in force.
C7_BoundEnforcement ==
    variant = "AC" =>
        /\ \A c \in Accounts, amt \in ClaimAmounts, p \in ProofsNow :
             amt > maxClaimAmount =>
               /\ ClaimResultAC(c, amt, p) # "ok"
               /\ (~isPaused /\ ~isClaimed[c]) =>
                    ClaimResultAC(c, amt, p) = "ExceedsMaxClaimAmount"
        /\ ClaimSucceeded => last.amount <= maxClaimAmount

\* with the bound lowered below user2's entitlement, a claim was refused with
\* ExceedsMaxClaimAmount
C7_Witness ==
    /\ variant = "AC"
    /\ last.op = "claim" /\ last.result = "ExceedsMaxClaimAmount"
    /\ \E t \in CommittedAC : t[2] > maxClaimAmount /\ ~isClaimed[t[1]]

\* ------------------------------------------------------------------- C8
\* C8 as stated: canClaim(account, amount, proof) is true exactly when
\* claim(amount, proof) sent by account succeeds.
C8_Original ==
    variant = "AC" =>
        \A c \in Accounts, amt \in ClaimAmounts, p \in ProofsNow :
            canClaim(c, amt, p) <=> ClaimResultAC(c, amt, p) = "ok"

\* C8 (amended): canClaim(account, amount, proof) is true exactly when
\* claim(amount, proof) sent by account passes every check of claim (pause,
\* claim record, amount, proof); the claim then succeeds exactly when the
\* airdrop contract also holds MINTER_ROLE on the token.
C8_CanClaimLockStep ==
    variant = "AC" =>
        \A c \in Accounts, amt \in ClaimAmounts, p \in ProofsNow :
            /\ canClaim(c, amt, p) <=> ValidateAC(c, amt, p) = "ok"
            /\ ClaimResultAC(c, amt, p) = "ok" <=>
                 (canClaim(c, amt, p) /\ MintAllowed(AirdropAddress))

\* canClaim says yes to user1 and user1's claim was refused by the token
C8_Witness ==
    /\ variant = "AC"
    /\ last.op = "claim" /\ last.result = "AccessControlUnauthorizedAccount"
    /\ \E t \in CommittedAC : t[1] = 1 /\ canClaim(t[1], t[2], t[3])

\* ------------------------------------------------------------------- C9
\* C9: when the airdrop contract may not mint, a claim that passes every check
\* fails as a whole and changes nothing (claim records, totalClaimed,
\* balances), and once MINTER_ROLE is granted the same claim succeeds.
C9_ClaimAtomicWithMint ==
    /\ [](~MintAllowed(AirdropAddress) =>
            \A c \in Accounts, amt \in ClaimAmounts, p \in ProofsNow :
                Validate(c, amt, p) = "ok" =>
                    ClaimResult(c, amt, p) = "AccessControlUnauthorizedAccount")
    /\ [][(last'.op = "claim" /\ last'.result = "AccessControlUnauthorizedAccount") =>
            UNCHANGED contractState]_vars
    /\ [][(last'.op = "grantMinterRole" /\ last'.result = "ok") =>
            \A c \in Accounts, amt \in ClaimAmounts, p \in ProofsNow :
                Validate(c, amt, p) = "ok" => (ClaimResult(c, amt, p))' = "ok"]_vars

\* a valid claim was refused by the token's mint and left nothing behind
C9_Witness ==
    /\ last.op = "claim" /\ last.result = "AccessControlUnauthorizedAccount"
    /\ ~MintAllowed(AirdropAddress)
    /\ totalSupply = 0 /\ totalClaimed = 0
    /\ \A a \in Accounts : ~Claimed(a) /\ balances[a] = 0

\* ------------------------------------------------------------------ C10
\* C10: a claim record that is true stays true, whatever call follows.
C10_ClaimRecordMonotonic ==
    [][\A a \in Accounts :
          /\ isClaimed[a] => isClaimed'[a]
          /\ hasClaimed[a] => hasClaimed'[a]]_vars

\* a record survived a root rotation
C10_Witness ==
    /\ variant = "UP"
    /\ last.op = "setMerkleRoot" /\ last.result = "ok"
    /\ merkleRoot = Root2
    /\ hasClaimed[1]

\* ------------------------------------------------------------------ C11
\* the addresses AirdropWithAccessControl has marked claimed
ClaimedAC == {a \in Accounts : isClaimed[a]}

RECURSIVE SumCommitted(_)
\* the committed amounts of a set of addresses, added up
SumCommitted(S) ==
    IF S = {} THEN 0
    ELSE LET a == CHOOSE x \in S : TRUE
         IN  AmountIn(RecipientsAC, a) + SumCommitted(S \ {a})

RECURSIVE SumBalances(_)
\* the token balances of a set of addresses, added up
SumBalances(S) ==
    IF S = {} THEN 0
    ELSE LET a == CHOOSE x \in S : TRUE
         IN  balances[a] + SumBalances(S \ {a})

C12_SetMerkleRoot ==
    [][last'.op = "setMerkleRoot" =>
         \A c \in Senders, root \in RootChoices :
            setMerkleRoot(c, root) =>
               IF hasRole(DEFAULT_ADMIN_ROLE, c)
               THEN /\ last'.result = "ok"
                    /\ last'.caller = c
                    /\ merkleRoot' = root
                    /\ last'.event = EvMerkleRootUpdated(root)
               ELSE /\ last'.result = "AccessControlUnauthorizedAccount"
                    /\ merkleRoot' = merkleRoot
                    /\ last'.event = NoEvent]_vars

\* the admin has replaced the root, and a later attempt by an account
\* without the role was refused
C12_Witness ==
    /\ variant = "UP"
    /\ merkleRoot = NewRoot
    /\ last.op = "setMerkleRoot"
    /\ last.result = "AccessControlUnauthorizedAccount"
    /\ roles[DEFAULT_ADMIN_ROLE] = {Owner}

\* ------------------------------------------------------------------ C13
\* the root has been rotated away from the one the proxy was initialised with
Rotated == variant = "UP" /\ merkleRoot # Root1

\* a Round1 triple whose proof does not verify under the current root
Stale(t) == t \in CommittedR1 /\ ~Verify(t[3], merkleRoot, Leaf(t[1], t[2]))

\* C13 as stated: after a rotation every claim with a proof valid only under
\* the old root fails with InvalidProof, and every address that has not
\* claimed and is committed in the new root claims successfully.
C13_Original ==
    Rotated =>
        /\ \A t \in CommittedR1 :
             Stale(t) => ClaimResultUP(t[1], t[2], t[3]) = "InvalidProof"
        /\ \A t \in CommittedNow :
             ~hasClaimed[t[1]] => ClaimResultUP(t[1], t[2], t[3]) = "ok"

\* C13 (amended): after a rotation a claim with a proof valid only under the
\* old root fails -- with InvalidProof when its sender has not claimed, with
\* AlreadyClaimed when it has; an address absent from the new root cannot
\* claim at all while that root is current; and an address that has not
\* claimed and is committed in the new root claims successfully with its new
\* proof, provided the airdrop contract holds MINTER_ROLE.
C13_StaleProofAfterRotation ==
    Rotated =>
        /\ \A t \in CommittedR1 :
             Stale(t) =>
               ClaimResultUP(t[1], t[2], t[3]) =
                 IF hasClaimed[t[1]] THEN "AlreadyClaimed" ELSE "InvalidProof"
        /\ \A c \in Accounts :
             (\A t \in CommittedNow : t[1] # c) =>
               \A amt \in ClaimAmounts, p \in ProofsNow :
                  ClaimResultUP(c, amt, p) # "ok"
        /\ \A t \in CommittedNow :
             (~hasClaimed[t[1]] /\ MintAllowed(AirdropAddress)) =>
               ClaimResultUP(t[1], t[2], t[3]) = "ok"

\* user1 claimed under Root1, the root was rotated to Root2, user2 claimed
\* with its Root2 proof, and user3, absent from Root2, is left unclaimed
C13_Witness ==
    /\ Rotated /\ merkleRoot = Root2
    /\ hasClaimed[1] /\ balances[1] = AmountIn(Round1, 1)
    /\ last.event = EvAirdropClaimed(2, 2)
    /\ ~hasClaimed[3]
    /\ \E t \in CommittedR1 : t[1] = 3 /\ Stale(t)

\* ------------------------------------------------------------------ C14
\* C14: a setMerkleRoot call, successful or not, changes nothing but
\* merkleRoot: every claim record, every role membership, the implementation
\* behind the proxy and the token (its balances, supply and minters) are the
\* same after the call as before it.
C14_SetMerkleRootFrame ==
    [][last'.op = "setMerkleRoot" =>
         /\ hasClaimed' = hasClaimed
         /\ isClaimed' = isClaimed
         /\ roles' = roles
         /\ UNCHANGED <<variant, pending, claimedBitMap, token, initialized, isPaused, totalClaimed, maxClaimAmount,
                        implementation, balances, totalSupply, minters>>]_vars

\* the root was replaced by an arbitrary new root after user2 had claimed and
\* after a second administrator had been appointed
C14_Witness ==
    /\ variant = "UP"
    /\ last.event = EvMerkleRootUpdated(NewRoot)
    /\ merkleRoot = NewRoot
    /\ hasClaimed[2] /\ balances[2] = 2
    /\ roles[DEFAULT_ADMIN_ROLE] = {Owner, 1}

\* ------------------------------------------------------------------ C15
\* C15: in AirdropWithAccessControl isPaused changes value only in a
\* successful pause() or unpause() sent by a holder of PAUSER_ROLE (pause sets
\* it, unpause clears it); pause() or unpause() sent by any other account
\* reverts and leaves the flag as it was; and a claim succeeds only from a
\* state in which isPaused is false.
C15_PauseStateMachine ==
    [][variant = "AC" =>
         /\ isPaused' # isPaused =>
              /\ last'.result = "ok"
              /\ last'.op = IF isPaused' THEN "pause" ELSE "unpause"
              /\ hasRole(PAUSER_ROLE, last'.caller)
         /\ last'.op \in {"pause", "unpause"} =>
              \A c \in Senders :
                 ((pause(c) \/ unpause(c)) /\ ~hasRole(PAUSER_ROLE, c)) =>
                    (last'.result # "ok" /\ isPaused' = isPaused)
         /\ (last'.op = "claim" /\ last'.result = "ok") =>
              (~isPaused /\ ~isPaused')]_vars

\* user1, made a pauser by the administrator, has paused the contract
C15_Witness ==
    /\ variant = "AC"
    /\ isPaused
    /\ last.event = EvPaused(1)
    /\ roles[PAUSER_ROLE] = {Owner, 1}
    /\ ~hasRole(ADMIN_ROLE, 1)

\* ------------------------------------------------------------------ C16
\* C16: emergencyWithdraw(amount) sent by a holder of ADMIN_ROLE never
\* reverts, however large the request: it moves exactly
\* min(amount, balance of the contract) tokens from the contract to the
\* sender and no others, so the contract's balance never goes negative and
\* the sender's balance rises by the clamped amount.
C16_EmergencyWithdrawClamps ==
    /\ [](\A h \in Holders : balances[h] >= 0)
    /\ [][last'.op = "emergencyWithdraw" =>
            \A c \in Senders, amt \in 0..(MaxFunding + 1) :
               (emergencyWithdraw(c, amt) /\ hasRole(ADMIN_ROLE, c)) =>
                  LET held == balances[AirdropAddress]
                      sent == IF amt < held THEN amt ELSE held
                  IN  /\ last'.result = "ok"
                      /\ balances'[AirdropAddress] = held - sent
                      /\ balances'[c] = balances[c] + sent
                      /\ \A h \in Holders \ {AirdropAddress, c} :
                            balances'[h] = balances[h]
                      /\ totalSupply' = totalSupply]_vars

\* the contract was funded and user1, made an administrator, withdrew all of it
C16_Witness ==
    /\ variant = "AC"
    /\ last.op = "emergencyWithdraw" /\ last.caller = 1
    /\ last.event = EvEmergencyWithdraw(MaxFunding)
    /\ balances[AirdropAddress] = 0
    /\ balances[1] = MaxFunding
    /\ ~isClaimed[1]

\* ------------------------------------------------------------------ C17
\* C17: setMaxClaimAmount(v) sent by a holder of ADMIN_ROLE succeeds, sets
\* maxClaimAmount to v, emits MaxClaimAmountUpdated(previous value, v) and
\* changes nothing else; from then on claim is checked against v: no amount
\* above v succeeds, and an amount of at most v that meets every other
\* condition does.
C17_SetMaxClaimAmount ==
    [][last'.op = "setMaxClaimAmount" =>
         \A c \in Senders, v \in NewMaxChoices :
            (setMaxClaimAmount(c, v) /\ hasRole(ADMIN_ROLE, c)) =>
               /\ last'.result = "ok"
               /\ maxClaimAmount' = v
               /\ last'.event = EvMaxClaimAmountUpdated(maxClaimAmount, v)
               /\ UNCHANGED <<variant, pending, claimedBitMap, token, initialized, merkleRoot, isClaimed, hasClaimed, isPaused,
                              totalClaimed, roles, implementation, balances,
                              totalSupply, minters>>
               /\ \A a \in Accounts, amt \in ClaimAmounts, p \in ProofInputsAC :
                     LET after == (ClaimResultAC(a, amt, p))'
                     IN  /\ amt > v => after # "ok"
                         /\ (/\ 0 < amt /\ amt <= v
                             /\ ~isPaused /\ ~isClaimed[a]
                             /\ Verify(p, merkleRoot, Leaf(a, amt))
                             /\ MintAllowed(AirdropAddress)) => after = "ok"]_vars

\* after user1 claimed, the bound was lowered from its default to 100 tokens,
\* below user2's entitlement
C17_Witness ==
    /\ variant = "AC"
    /\ last.event = EvMaxClaimAmountUpdated(DefaultMaxClaimAmount, 1)
    /\ maxClaimAmount = 1
    /\ isClaimed[1] /\ totalClaimed = 1 /\ ~isClaimed[2]

\* ------------------------------------------------------------------ C18
\* a step that is a guarded call of AirdropWithAccessControl sent by c while
\* c lacks the role the call requires
DeniedCall(c) ==
    \/ /\ ~hasRole(PAUSER_ROLE, c)
       /\ pause(c) \/ unpause(c)
    \/ /\ ~hasRole(ADMIN_ROLE, c)
       /\ \/ \E v \in NewMaxChoices : setMaxClaimAmount(c, v)
          \/ \E amt \in 0..(MaxFunding + 1) : emergencyWithdraw(c, amt)
          \/ \E a \in RoleTargetsAC :
                \/ grantPauserRole(c, a) \/ revokePauserRole(c, a)
                \/ grantClaimManagerRole(c, a) \/ revokeClaimManagerRole(c, a)
    \/ /\ ~hasRole(DEFAULT_ADMIN_ROLE, c)
       /\ \E a \in RoleTargetsAC : grantAdminRole(c, a) \/ revokeAdminRole(c, a)

GuardedOps ==
    {"pause", "unpause", "setMaxClaimAmount", "emergencyWithdraw",
     "grantAdminRole", "revokeAdminRole", "grantPauserRole", "revokePauserRole",
     "grantClaimManagerRole", "revokeClaimManagerRole"}

OnlyRoleChanged(role) == \A r \in RolesAC \ {role} : roles'[r] = roles[r]

\* the step is a successful generic grantRole/revokeRole by an administrator
ByDefaultAdmin ==
    /\ last'.op \in {"grantRole", "revokeRole"}
    /\ hasRole(DEFAULT_ADMIN_ROLE, last'.caller)

\* the step is a successful dedicated grant/revoke of `role` by a holder of
\* the role `guard`
ByDedicated(ops, guard, role) ==
    /\ last'.op \in ops
    /\ hasRole(guard, last'.caller)
    /\ OnlyRoleChanged(role)

\* the step is the sender giving up a role it held
ByRenunciation ==
    /\ last'.op = "renounceRole"
    /\ \E r \in RolesAC :
          /\ hasRole(r, last'.caller)
          /\ roles' = [roles EXCEPT ![r] = @ \ {last'.caller}]

\* C19 as stated: ADMIN_ROLE membership changes only through calls by a
\* DEFAULT_ADMIN_ROLE holder; PAUSER_ROLE and CLAIM_MANAGER_ROLE membership
\* changes only through the dedicated functions called by an ADMIN_ROLE holder
\* or generic grantRole/revokeRole called by a DEFAULT_ADMIN_ROLE holder; an
\* account holding none of the roles changes no membership.
C19_Original ==
    [][variant = "AC" =>
         /\ roles'[ADMIN_ROLE] # roles[ADMIN_ROLE] =>
              (last'.result = "ok" /\ hasRole(DEFAULT_ADMIN_ROLE, last'.caller))
         /\ \A r \in {PAUSER_ROLE, CLAIM_MANAGER_ROLE} :
              roles'[r] # roles[r] =>
                /\ last'.result = "ok"
                /\ \/ ByDefaultAdmin
                   \/ /\ hasRole(ADMIN_ROLE, last'.caller)
                      /\ last'.op \in {"grantPauserRole", "revokePauserRole",
                                       "grantClaimManagerRole", "revokeClaimManagerRole"}
         /\ roles' # roles => \E r \in RolesAC : hasRole(r, last'.caller)]_vars

\* C19 (amended): every change of role membership in AirdropWithAccessControl
\* is one of: a holder's own renounceRole, which removes only the sender from
\* a role it held; generic grantRole/revokeRole by a DEFAULT_ADMIN_ROLE
\* holder; grantAdminRole/revokeAdminRole by a DEFAULT_ADMIN_ROLE holder,
\* changing ADMIN_ROLE only; or the dedicated pauser / claim-manager functions
\* by an ADMIN_ROLE holder, changing that role only.  So an account holding
\* no role changes no membership.
C19_RoleDelegation ==
    [][(variant = "AC" /\ roles' # roles) =>
         /\ last'.result = "ok"
         /\ \/ ByRenunciation
            \/ ByDefaultAdmin
            \/ ByDedicated({"grantAdminRole", "revokeAdminRole"},
                           DEFAULT_ADMIN_ROLE, ADMIN_ROLE)
            \/ ByDedicated({"grantPauserRole", "revokePauserRole"},
                           ADMIN_ROLE, PAUSER_ROLE)
            \/ ByDedicated({"grantClaimManagerRole", "revokeClaimManagerRole"},
                           ADMIN_ROLE, CLAIM_MANAGER_ROLE)
         /\ \E r \in RolesAC : hasRole(r, last'.caller)]_vars

\* user1, an ADMIN_ROLE holder who is not DEFAULT_ADMIN_ROLE, made itself a
\* claim manager with the dedicated function
C19_Witness ==
    /\ variant = "AC"
    /\ last.op = "grantClaimManagerRole" /\ last.result = "ok" /\ last.caller = 1
    /\ hasRole(ADMIN_ROLE, 1) /\ ~hasRole(DEFAULT_ADMIN_ROLE, 1)
    /\ roles[CLAIM_MANAGER_ROLE] = {Owner, 1}

\* ------------------------------------------------------------------ C20
\* The outcome of claim(amount, proof) sent by c, written from the claim
\* state alone: the pause flag, the claim record, the bound, the triples the
\* current root commits to and the contract's right to mint.  No role
\* membership of the airdrop contract occurs in it.
OutcomeWithoutRoles(c, amt, p) ==
    IF variant = "AC" /\ isPaused THEN "AirdropPaused"
    ELSE IF Claimed(c) THEN "AlreadyClaimed"
    ELSE IF amt = 0 THEN "ZeroAmount"
    ELSE IF variant = "AC" /\ amt > maxClaimAmount THEN "ExceedsMaxClaimAmount"
    ELSE IF <<c, amt, p>> \notin CommittedNow THEN "InvalidProof"
    ELSE IF ~MintAllowed(AirdropAddress) THEN "AccessControlUnauthorizedAccount"
    ELSE "ok"

\* the answer of canClaim, written the same way
CanClaimWithoutRoles(c, amt, p) ==
    /\ ~isPaused /\ ~Claimed(c)
    /\ 0 < amt /\ amt <= maxClaimAmount
    /\ <<c, amt, p>> \in CommittedNow

\* the holders of some role that no root commits to
UncommittedRoleHolders ==
    {c \in Accounts : /\ \E r \in RolesOf : hasRole(r, c)
                      /\ AmountIn(RecipientsAC, c) = 0
                      /\ AmountIn(Round1, c) = 0
                      /\ AmountIn(Round2, c) = 0}

\* in every state claim and canClaim answer every request as the role-free
\* description says, so two states that differ only in role memberships of
\* the airdrop contract answer alike
SameOutcomes ==
    \A c \in Accounts, amt \in ClaimAmounts, p \in ProofsNow :
        LET outcome == ClaimResult(c, amt, p)
        IN  /\ outcome = OutcomeWithoutRoles(c, amt, p)
            /\ variant = "AC" =>
                 (canClaim(c, amt, p) <=> CanClaimWithoutRoles(c, amt, p))

\* C20 as stated: states that differ only in role memberships give the same
\* claim and canClaim outcome for every request, and a role holder that is
\* not committed in the tree fails with InvalidProof.
C20_Original ==
    /\ SameOutcomes
    /\ \A c \in UncommittedRoleHolders :
          \A amt \in ClaimAmounts, p \in ProofsNow :
             ClaimResult(c, amt, p) = "InvalidProof"

\* C20 (amended): states that differ only in the role memberships of the
\* airdrop contract give the same claim and canClaim outcome for every
\* caller, amount and proof; a role holder that is not committed in the tree
\* never claims successfully and never gets true from canClaim, and its claim
\* fails with InvalidProof whenever it passes the checks made before the
\* proof is verified.
C20_RolesGiveNoEligibility ==
    [](/\ SameOutcomes
       /\ \A c \in UncommittedRoleHolders :
             \A amt \in ClaimAmounts, p \in ProofsNow :
                /\ ClaimResult(c, amt, p) # "ok"
                /\ variant = "AC" => ~canClaim(c, amt, p)
                /\ PassesEarlierChecks(c, amt) =>
                     ClaimResult(c, amt, p) = "InvalidProof")

\* user1 has just been made an administrator; the deployer, who holds every
\* role and is in no tree, is refused with InvalidProof whatever proof it sends
C20_Witness ==
    /\ variant = "AC"
    /\ last.op = "grantAdminRole" /\ last.result = "ok"
    /\ hasRole(ADMIN_ROLE, 1)
    /\ ~isPaused /\ MintAllowed(AirdropAddress)
    /\ Owner \in UncommittedRoleHolders
    /\ \A p \in ProofInputsAC : ClaimResultAC(Owner, 1, p) = "InvalidProof"

\* ------------------------------------------------------------------ C21
\* C21: Airdrop.initialize takes effect at most once per proxy: the proxy is
\* initialised when it is deployed, and every later initialize call fails
\* and leaves token, merkleRoot and all role memberships unchanged.
C21_InitializeOnce ==
    /\ [](variant = "UP" => initialized)
    /\ [][last'.op = "initialize" =>
            /\ initialized
            /\ last'.result = "InvalidInitialization"
            /\ token' = token /\ merkleRoot' = merkleRoot /\ roles' = roles
            /\ UNCHANGED contractState]_vars

\* after the root was rotated and user1 became an administrator, a second
\* initialize was refused
C21_Witness ==
    /\ variant = "UP"
    /\ last.op = "initialize" /\ last.result = "InvalidInitialization"
    /\ merkleRoot = Root2 /\ token = TokenAddress
    /\ roles[DEFAULT_ADMIN_ROLE] = {Owner, 1}

\* ------------------------------------------------------------------ C22
\* C22: the logic of the upgradeable Airdrop is replaced only by a caller
\* that holds DEFAULT_ADMIN_ROLE when it sends the upgrade; an upgrade sent by
\* any other account fails and the implementation stays the same.
C22_UpgradeAuthorization ==
    /\ [][implementation' # implementation =>
            /\ last'.op = "upgradeToAndCall" /\ last'.result = "ok"
            /\ hasRole(DEFAULT_ADMIN_ROLE, last'.caller)]_vars
    /\ [][last'.op = "upgradeToAndCall" =>
            \A c \in Senders :
               upgradeToAndCall(c) =>
                  IF hasRole(DEFAULT_ADMIN_ROLE, c)
                  THEN last'.result = "ok" /\ implementation' = implementation + 1
                  ELSE /\ last'.result # "ok"
                       /\ implementation' = implementation
                       /\ UNCHANGED contractState]_vars

\* user1 replaced the logic after it had been made an administrator and the
\* deployer had given the role up
C22_Witness ==
    /\ variant = "UP"
    /\ last.op = "upgradeToAndCall" /\ last.result = "ok" /\ last.caller = 1
    /\ implementation = 1
    /\ roles[DEFAULT_ADMIN_ROLE] = {1}

\* ------------------------------------------------------------------ C23
\* C23: an upgrade of the Airdrop logic preserves persistent state: hasClaimed
\* of every address, merkleRoot, token and the role memberships are the same
\* before and after it.  So every claim request has the same outcome after
\* the upgrade as before it: an address that had claimed fails with
\* AlreadyClaimed, and an address that had not claimed and could claim with
\* its proof before the upgrade can still claim with that proof.
C23_UpgradePreservesState ==
    [][(last'.op = "upgradeToAndCall" /\ last'.result = "ok") =>
         /\ hasClaimed' = hasClaimed
         /\ merkleRoot' = merkleRoot
         /\ token' = token
         /\ roles' = roles
         /\ initialized' = initialized
         /\ \A c \in Accounts, amt \in ClaimAmounts, p \in ProofInputsUP :
               LET before == ClaimResultUP(c, amt, p)
                   after  == ClaimResultUP(c, amt, p)'
               IN  /\ after = before
                   /\ hasClaimed[c] => after = "AlreadyClaimed"
                   /\ (~hasClaimed[c] /\ before = "ok") => after = "ok"]_vars

\* the logic was replaced after user1 had claimed; user2 and user3 have not
\* claimed yet and their Round1 proofs are still good
C23_Witness ==
    /\ variant = "UP"
    /\ last.op = "upgradeToAndCall" /\ last.result = "ok"
    /\ implementation = 1
    /\ merkleRoot = Root1
    /\ hasClaimed[1] /\ ~hasClaimed[2] /\ ~hasClaimed[3]
    /\ \A t \in CommittedR1 :
          ClaimResultUP(t[1], t[2], t[3]) = IF t[1] = 1 THEN "AlreadyClaimed" ELSE "ok"

\* ------------------------------------------------------------------ C24
\* C24: authorization follows role membership at the time of the call.  A
\* setMerkleRoot succeeds exactly when its sender holds DEFAULT_ADMIN_ROLE in
\* the state it is sent in; an account holds the role from the step that
\* grants it, and loses it with the step that revokes it, so a newly
\* appointed administrator can set the root and the old administrator's
\* setMerkleRoot fails from its revocation on.
C24_AuthorizationAtCallTime ==
    /\ [][last'.op = "setMerkleRoot" =>
            \A c \in Senders, root \in RootChoices :
               setMerkleRoot(c, root) =>
                  IF hasRole(DEFAULT_ADMIN_ROLE, c)
                  THEN last'.result = "ok" /\ merkleRoot' = root
                  ELSE /\ last'.result = "AccessControlUnauthorizedAccount"
                       /\ UNCHANGED contractState]_vars
    /\ [][(variant = "UP" /\ last'.op = "grantRole" /\ last'.result = "ok") =>
            \A c \in Senders, a \in RoleTargetsUP :
               grantRole(c, DEFAULT_ADMIN_ROLE, a) =>
                  /\ hasRole(DEFAULT_ADMIN_ROLE, c)
                  /\ roles'[DEFAULT_ADMIN_ROLE] = roles[DEFAULT_ADMIN_ROLE] \cup {a}]_vars
    /\ [][(variant = "UP" /\ last'.op = "revokeRole" /\ last'.result = "ok") =>
            \A c \in Senders, a \in RoleTargetsUP :
               revokeRole(c, DEFAULT_ADMIN_ROLE, a) =>
                  /\ hasRole(DEFAULT_ADMIN_ROLE, c)
                  /\ roles'[DEFAULT_ADMIN_ROLE] = roles[DEFAULT_ADMIN_ROLE] \ {a}]_vars
    /\ [][(variant = "UP" /\ roles' # roles) =>
            last'.op \in {"grantRole", "revokeRole", "renounceRole"}]_vars

\* user1, appointed by the deployer, revoked the deployer's role and then set
\* the root itself
C24_Witness ==
    /\ variant = "UP"
    /\ last.op = "setMerkleRoot" /\ last.result = "ok" /\ last.caller = 1
    /\ merkleRoot = Root2
    /\ roles[DEFAULT_ADMIN_ROLE] = {1}
    /\ implementation = 0

\* ------------------------------------------------------------------ C25
\* C25 as stated: for every recipient of the recipients list, the amount and
\* proof that generateMerkle.ts writes to merkle.json are accepted by claim
\* on the Airdrop contract that holds the generated root: the leaf the
\* generator hashes equals the leaf hash(caller, amount) the contract
\* recomputes.
C25_Original ==
    \A m \in MerkleFiles :
        m.root = merkleRoot =>
            \A i \in 1..Len(m.recipients) :
                LET recipient == m.recipients[i]
                IN  /\ leaf(recipient.index, recipient.account, recipient.amount)
                         = Leaf(recipient.account, recipient.amount)
                    /\ ~hasClaimed[recipient.account] =>
                         ValidateUP(recipient.account, recipient.amount,
                                    recipient.proof) = "ok"

\* what the code does instead: no entry of a generated merkle.json is ever
\* accepted, each is refused with InvalidProof and nobody is recorded as
\* having claimed
C25_GeneratedProofsRejected ==
    /\ \A a \in Accounts : ~hasClaimed[a]
    /\ \A m \in MerkleFiles :
          m.root = merkleRoot =>
             \A i \in 1..Len(m.recipients) :
                LET recipient == m.recipients[i]
                IN  ValidateUP(recipient.account, recipient.amount,
                               recipient.proof) = "InvalidProof"

\* the contract holds the right to mint and the root generated for user1 100
\* and user2 200, and the claim script of a recipient was refused
C25_Witness ==
    /\ merkleRoot = merkleJson(<< [address |-> 1, amount |-> 1],
                                  [address |-> 2, amount |-> 2] >>).root
    /\ MintAllowed(AirdropAddress)
    /\ last.op = "claim" /\ last.result = "InvalidProof"

\* ------------------------------------------------------------------ C26
\* every node of the tree over a list of leaves, layer by layer
RECURSIVE NodesOf(_)
NodesOf(nodes) ==
    {nodes[i] : i \in 1..Len(nodes)} \cup
        (IF Len(nodes) <= 1 THEN {} ELSE NodesOf(NextLayer(nodes)))

\* C26: proof verification does not depend on left/right position: a fold
\* step hashes the running value and the next proof element in sorted order,
\* so hashPair(a, b) = hashPair(b, a), and for every leaf of a tree built
\* off-chain with sorted pairs the root recomputed from the leaf and its
\* sibling path is the root of the tree.
C26_SortedPairProofs ==
    \A tree \in TestTrees :
        tree.root = merkleRoot =>
            /\ \A a, b \in NodesOf(tree.leaves) :
                  /\ HashPair(a, b) = HashPair(b, a)
                  /\ HashPair(a, b) = IF HashLess(a, b) THEN <<1>> \o a \o b
                                                        ELSE <<1>> \o b \o a
            /\ \A i \in 1..Len(tree.leaves) :
                  /\ ProcessProof(tree.proofs[i].proof, tree.leaves[i]) = tree.root
                  /\ Verify(tree.proofs[i].proof, merkleRoot,
                            Leaf(tree.proofs[i].address, tree.proofs[i].amount))

\* all three recipients of the tree user1 100, user2 200, user3 300 claimed,
\* the last of them user3, whose leaf has no sibling in the bottom layer
C26_Witness ==
    /\ merkleRoot = Root1
    /\ isClaimed[1] /\ isClaimed[2] /\ isClaimed[3]
    /\ last.op = "claim" /\ last.result = "ok" /\ last.caller = 3
    /\ Len(recipientsWithProofs(Round1).proofs[3].proof) = 1
    /\ Len(recipientsWithProofs(Round1).proofs[1].proof) = 2

\* ------------------------------------------------------------------ C27
\* the amounts some root commits an address to
CommittedAmounts(a) ==
    IF variant = "AC" THEN {AmountIn(RecipientsAC, a)} \ {0}
    ELSE {AmountIn(Round1, a), AmountIn(Round2, a)} \ {0}

\* C27: with the airdrop contract as the only minter used and no tokens
\* burned or transferred, the balance of every address is the amount it
\* claimed (0 if it has not claimed) and the total supply is the sum of all
\* claimed amounts: balances start at 0, a successful claim raises the
\* claimant's balance from 0 to the claimed amount and the supply by the
\* same amount, and no other call changes a balance or the supply.
C27_BalancesAreClaims ==
    /\ \A h \in Holders : balances[h] = 0
    /\ totalSupply = 0
    /\ [](/\ \A a \in Accounts :
               IF Claimed(a) THEN balances[a] \in CommittedAmounts(a)
                             ELSE balances[a] = 0
          /\ balances[AirdropAddress] = 0
          /\ totalSupply = SumBalances(Accounts)
          /\ variant = "AC" =>
               \A a \in Accounts :
                  balances[a] = IF isClaimed[a] THEN AmountIn(RecipientsAC, a) ELSE 0)
    /\ [][IF last'.op = "claim" /\ last'.result = "ok"
          THEN /\ ~Claimed(last'.caller)
               /\ balances' = [balances EXCEPT ![last'.caller] = last'.amount]
               /\ totalSupply' = totalSupply + last'.amount
          ELSE UNCHANGED <<balances, totalSupply>>]_vars

\* user2 claimed 200 under the first root and user1 claimed 300 under the
\* second: each holds what it claimed and the supply is 500
C27_Witness ==
    /\ variant = "UP"
    /\ merkleRoot = Root2
    /\ last.op = "claim" /\ last.result = "ok" /\ last.caller = 1 /\ last.amount = 3
    /\ hasClaimed[1] /\ hasClaimed[2] /\ ~hasClaimed[3]
    /\ balances[1] = 3 /\ balances[2] = 2 /\ balances[3] = 0
    /\ totalSupply = 5

\* ------------------------------------------------------------------ C28
\* the addresses whose claim record is true
ClaimedSet == {a \in Accounts : Claimed(a)}

\* the claim event of the deployed contract
ClaimEvent(caller, amount) ==
    IF variant = "AC" THEN EvClaimed(caller, amount)
    ELSE EvAirdropClaimed(caller, amount)

\* the call that has just ended logged a claim event
ClaimEventEmitted ==
    /\ last.event # NoEvent
    /\ Head(last.event) \in {"Claimed", "AirdropClaimed"}

\* C28: every successful claim emits exactly one Claimed(caller, amount)
\* event (AirdropClaimed in the upgradeable contract) that carries the caller
\* and the minted amount, and no failed claim and no other call emits one;
\* each such event goes with exactly one new claim record and records are
\* never cleared, so the number of these events is always the number of
\* addresses whose claim record is true (both start at 0).
C28_ClaimEvents ==
    /\ ClaimedSet = {} /\ ~ClaimEventEmitted
    /\ [][/\ ClaimEventEmitted' <=> (last'.op = "claim" /\ last'.result = "ok")
          /\ ClaimEventEmitted' =>
               /\ last'.event = ClaimEvent(last'.caller, last'.amount)
               /\ balances'[last'.caller] = balances[last'.caller] + last'.amount
               /\ totalSupply' = totalSupply + last'.amount
               /\ ClaimedSet' = ClaimedSet \cup {last'.caller}
               /\ last'.caller \notin ClaimedSet
          /\ ~ClaimEventEmitted' => ClaimedSet' = ClaimedSet
          /\ Cardinality(ClaimedSet') =
               Cardinality(ClaimedSet) + IF ClaimEventEmitted' THEN 1 ELSE 0]_vars

\* the third AirdropClaimed event: user3 claimed 300 after user1 and user2
C28_Witness ==
    /\ variant = "UP"
    /\ last.event = EvAirdropClaimed(3, 3)
    /\ ClaimedSet = {1, 2, 3}

\* ------------------------------------------------------------------ C29
\* C29: immediately after deployment AirdropWithAccessControl is Active
\* (isPaused false), totalClaimed is 0, maxClaimAmount is 1000 * 10^18 (10
\* units of 100 tokens), no address is marked claimed, and the deployer and
\* only the deployer holds DEFAULT_ADMIN_ROLE, ADMIN_ROLE, PAUSER_ROLE and
\* CLAIM_MANAGER_ROLE.
C29_InitialState ==
    (variant = "AC" /\ last.op = "deploy") =>
        /\ isPaused = FALSE
        /\ totalClaimed = 0
        /\ maxClaimAmount = 10
        /\ \A a \in Accounts : ~isClaimed[a]
        /\ \A r \in {DEFAULT_ADMIN_ROLE, ADMIN_ROLE, PAUSER_ROLE, CLAIM_MANAGER_ROLE} :
              \A a \in Holders : hasRole(r, a) <=> a = Owner

\* the freshly deployed AirdropWithAccessControl, before any call
C29_Witness ==
    /\ variant = "AC"
    /\ last = NoCall
    /\ merkleRoot = RootAC /\ token = TokenAddress
    /\ totalSupply = 0

\* ------------------------------------------------------------------ C30
\* the order in which claim reports its rejections
ErrorOrder ==
    IF variant = "AC"
    THEN <<"AirdropPaused", "AlreadyClaimed", "ZeroAmount",
           "ExceedsMaxClaimAmount", "InvalidProof">>
    ELSE <<"AlreadyClaimed", "ZeroAmount", "InvalidProof">>

\* the rejection conditions that hold for a request, each taken on its own
Rejections(c, amt, p) ==
    (IF variant = "AC" /\ isPaused THEN {"AirdropPaused"} ELSE {})
    \cup (IF Claimed(c) THEN {"AlreadyClaimed"} ELSE {})
    \cup (IF amt = 0 THEN {"ZeroAmount"} ELSE {})
    \cup (IF variant = "AC" /\ amt > maxClaimAmount
          THEN {"ExceedsMaxClaimAmount"} ELSE {})
    \cup (IF ~Verify(p, merkleRoot, Leaf(c, amt)) THEN {"InvalidProof"} ELSE {})

\* proofs that make every request both with a valid and with an invalid
\* proof: the ones the current root commits to, and the empty proof
GoodAndBadProofs == {t[3] : t \in CommittedNow} \cup {<<>>}

\* the first entry of the order that is among the given errors
FirstInOrder(errors) ==
    ErrorOrder[CHOOSE i \in 1..Len(ErrorOrder) :
                  /\ ErrorOrder[i] \in errors
                  /\ \A j \in 1..(i - 1) : ErrorOrder[j] \notin errors]

\* C30: when several rejection conditions hold at once, claim of
\* AirdropWithAccessControl reports the first that applies in the order
\* AirdropPaused, AlreadyClaimed, ZeroAmount, ExceedsMaxClaimAmount,
\* InvalidProof (a zero amount with an invalid proof gives ZeroAmount, an
\* amount over the bound with an invalid proof ExceedsMaxClaimAmount); claim
\* of the upgradeable Airdrop uses the order AlreadyClaimed, ZeroAmount,
\* InvalidProof.
C30_ErrorPrecedence ==
    [](\A c \in Accounts, amt \in ClaimAmounts, p \in GoodAndBadProofs :
          LET errors == Rejections(c, amt, p)
              guards == Validate(c, amt, p)
          IN  IF errors = {}
              THEN guards = "ok"
              ELSE /\ guards = FirstInOrder(errors)
                   /\ ClaimResult(c, amt, p) = guards)

\* a claim of 1100 tokens, over the default bound and in no tree, so with an
\* invalid proof as well, was refused with ExceedsMaxClaimAmount
C30_Witness ==
    /\ variant = "AC"
    /\ last.op = "claim" /\ last.result = "ExceedsMaxClaimAmount"
    /\ maxClaimAmount = DefaultMaxClaimAmount
    /\ ~isPaused
    /\ \A c \in Accounts, p \in ProofInputsAC :
          {"ExceedsMaxClaimAmount", "InvalidProof"}
             \subseteq Rejections(c, DefaultMaxClaimAmount + 1, p)

\* ------------------------------------------------------------------ C31
\* the entries of the list the current root was built from
EntriesNow ==
    UNION {{tree.proofs[i] : i \in 1..Len(tree.proofs)} :
             tree \in {t \in LargeTrees : t.root = merkleRoot}}

\* C31 as stated: the upgradeable Airdrop has neither a pause flag nor an
\* amount bound: a claim by an address that has not claimed, with an amount
\* > 0 and a proof valid against the current root, succeeds while the
\* contract holds MINTER_ROLE, however large the amount.
C31_Original ==
    \A e \in EntriesNow :
        (~hasClaimed[e.address] /\ e.amount > 0 /\ MintAllowed(AirdropAddress)) =>
            ClaimResultUP(e.address, e.amount, e.proof) = "ok"

\* C31 (amended): the upgradeable Airdrop has neither a pause flag nor an
\* amount bound: a claim by an address that has not claimed, with an amount
\* > 0 and a proof valid against the current root, passes every guard of
\* claim however large the amount, and while the contract holds MINTER_ROLE
\* it succeeds unless the amount would take the token's total supply past
\* the largest uint256, in which case the mint reverts with an arithmetic
\* panic.
C31_NoPauseNoBound ==
    \A e \in EntriesNow :
        (~hasClaimed[e.address] /\ e.amount > 0) =>
            /\ ValidateUP(e.address, e.amount, e.proof) = "ok"
            /\ MintAllowed(AirdropAddress) =>
                 ClaimResultUP(e.address, e.amount, e.proof) =
                    IF totalSupply + e.amount > MaxUint256 THEN "Panic" ELSE "ok"

\* user1 claimed the largest amount a uint256 can hold
C31_Witness ==
    /\ variant = "UP"
    /\ last.op = "claim" /\ last.result = "ok"
    /\ last.caller = 1 /\ last.amount = MaxUint256
    /\ balances[1] = MaxUint256 /\ totalSupply = MaxUint256

\* ------------------------------------------------------------------ C32
\* C32: emergencyWithdraw leaves the claim state untouched: it never changes
\* a claim record, totalClaimed, isPaused, maxClaimAmount or a role
\* membership; an administrator can call it while the contract is paused;
\* and when the clamped amount is 0 it succeeds, transfers nothing and emits
\* no EmergencyWithdraw event.
C32_EmergencyWithdrawFrame ==
    [][last'.op = "emergencyWithdraw" =>
         /\ UNCHANGED <<isClaimed, hasClaimed, totalClaimed, isPaused,
                        maxClaimAmount, roles, merkleRoot, totalSupply, minters>>
         /\ \A c \in Senders, amt \in 0..(MaxFunding + 1) :
               (emergencyWithdraw(c, amt) /\ hasRole(ADMIN_ROLE, c)) =>
                  LET held == balances[AirdropAddress]
                      sent == IF amt > held THEN held ELSE amt
                  IN  /\ last'.result = "ok"
                      /\ IF sent = 0
                         THEN balances' = balances /\ last'.event = NoEvent
                         ELSE /\ balances' # balances
                              /\ last'.event = EvEmergencyWithdraw(sent)]_vars

\* while the contract was paused and held nothing, after user1 had claimed,
\* an administrator's emergencyWithdraw succeeded without a transfer or event
C32_Witness ==
    /\ variant = "AC"
    /\ isPaused /\ isClaimed[1] /\ totalClaimed = 1
    /\ balances[AirdropAddress] = 0
    /\ last.op = "emergencyWithdraw" /\ last.result = "ok"
    /\ last.event = NoEvent

\* ------------------------------------------------------------------ C33
\* the claims accounts send to the distributor: every index, account and
\* amount, with a proof of the committed list or a forged one
ProofInputsMD ==
    UNION {UNION {{m.proofs[i].proof, Truncated(m.proofs[i].proof) \o <<NewRoot>>} :
                     i \in 1..Len(m.proofs)} :
             m \in {f \in DistributorFiles : f.root = merkleRoot}}

\* C33: in MerkleDistributor each index is claimed at most once, whoever the
\* caller is: claim(index, account, amount, proof) succeeds only if
\* isClaimed(index) is false and the proof verifies the hash of
\* (index, account, amount) against the immutable root; it transfers amount to
\* `account`, not to the caller; and every later claim of that index fails
\* with "Drop already claimed".
C33_ClaimByIndexOnce ==
    /\ [](\A index \in Indices, account \in Users, amount \in 0..MaxAmount,
             proof \in ProofInputsMD :
             LET r == ClaimResultMD(index, account, amount, proof)
             IN  /\ r = "ok" =>
                       /\ ~isClaimedIndex(index)
                       /\ Verify(proof, merkleRoot, node(index, account, amount))
                 /\ isClaimedIndex(index) => r = AlreadyClaimedMD)
    /\ [][/\ merkleRoot' = merkleRoot
          /\ \A index \in Indices : isClaimedIndex(index) => isClaimedIndex(index)'
          /\ (last'.op = "claim" /\ last'.result = "ok") =>
                \E caller \in Senders, index \in Indices, account \in Users,
                   amount \in 0..MaxAmount :
                    /\ last'.caller = caller /\ last'.amount = amount
                    /\ last'.event = EvClaimedIndex(index, account, amount)
                    /\ ~isClaimedIndex(index) /\ isClaimedIndex(index)'
                    /\ balances'[account] = balances[account] + amount
                    /\ balances'[DistributorAddress] =
                          balances[DistributorAddress] - amount
                    /\ \A h \in DOMAIN balances \ {account, DistributorAddress} :
                          balances'[h] = balances[h]
                    /\ caller # account => balances'[caller] = balances[caller]
          /\ (last'.op = "claim" /\ last'.result # "ok") =>
                UNCHANGED <<claimedBitMap, balances>>]_vars

\* the deployer claimed index 1 for user2: user2 was paid, the deployer was
\* not, and the index is marked
C33_Witness ==
    /\ variant = "MD"
    /\ last.op = "claim" /\ last.result = "ok" /\ last.caller = Owner
    /\ last.event = EvClaimedIndex(1, 2, MaxAmount)
    /\ isClaimedIndex(1) /\ ~isClaimedIndex(0)
    /\ balances[2] = MaxAmount /\ balances[Owner] = 0

\* ------------------------------------------------------------------ C34
\* the entries of the list the distributor's root commits to
EntriesMD == (CHOOSE m \in DistributorFiles : m.root = merkleRoot).proofs

\* the indices whose entry has been paid out: the recipient of an entry
\* receives tokens from nothing but a successful claim of that entry
PaidIndices ==
    {EntriesMD[i].index : i \in {k \in 1..Len(EntriesMD) :
                                    balances[EntriesMD[k].account] > 0}}

\* C34: the claimed bitmap of MerkleDistributor is exact and independent per
\* index: after _setClaimed(i), isClaimed(i) is true and isClaimed(j) is
\* unchanged for every j # i, also for indices in the same word; and
\* isClaimed(i) is true if and only if a claim of index i has succeeded.
C34_BitmapExact ==
    /\ [](\A i \in Indices : isClaimedIndex(i) <=> i \in PaidIndices)
    /\ [][/\ \A i \in Indices :
                claimedBitMap' = setClaimed(i) =>
                   /\ isClaimedIndex(i)'
                   /\ \A j \in Indices \ {i} :
                         isClaimedIndex(j)' <=> isClaimedIndex(j)
          /\ (last'.op = "claim" /\ last'.result = "ok") =>
                \E i \in Indices, account \in Users, amount \in 0..MaxAmount :
                    /\ last'.event = EvClaimedIndex(i, account, amount)
                    /\ claimedBitMap' = setClaimed(i)
          /\ (last'.op = "claim" /\ last'.result # "ok") =>
                claimedBitMap' = claimedBitMap]_vars

\* index 0 was claimed after index 1, which shares its word; index 2, in the
\* next word, is still open
C34_Witness ==
    /\ variant = "MD"
    /\ last.op = "claim" /\ last.result = "ok"
    /\ last.event = EvClaimedIndex(0, 1, 1)
    /\ isClaimedIndex(0) /\ isClaimedIndex(1) /\ ~isClaimedIndex(2)
    /\ claimedBitMap[0] = 3
    /\ balances[DistributorAddress] > 0

\* ------------------------------------------------------------------ C35
RECURSIVE SumUnclaimed(_)
\* the amounts of the entries whose index is not claimed, added up
SumUnclaimed(entries) ==
    IF entries = <<>> THEN 0
    ELSE (IF isClaimedIndex(Head(entries).index) THEN 0 ELSE Head(entries).amount)
         + SumUnclaimed(Tail(entries))

\* the deploy script ran: the token is MyMintableToken and the sum of the
\* committed amounts was minted to the distributor
DeployedWithMint ==
    token = TokenAddress /\ totalSupply = totalAmount(EntriesMD)

\* the ways a transfer of the distributor's tokens can fail
TransferFailures == {TransferFailedMD, "ERC20InsufficientBalance", "ERC20InvalidReceiver"}

\* C35: with the deployment that mints the sum of all committed amounts to
\* the distributor, after any sequence of claims the distributor's balance is
\* the sum of the amounts of the entries not yet claimed, so no claim with a
\* valid proof fails for lack of funds; and when the token transfer fails or
\* returns false the claimed bit is not set.
C35_FundsCoverClaims ==
    /\ [](DeployedWithMint =>
            /\ balances[DistributorAddress] = SumUnclaimed(EntriesMD)
            /\ \A index \in Indices, account \in Users, amount \in 0..MaxAmount,
                  proof \in ProofInputsMD :
                  (/\ ~isClaimedIndex(index)
                   /\ Verify(proof, merkleRoot, node(index, account, amount))) =>
                     /\ amount <= balances[DistributorAddress]
                     /\ ClaimResultMD(index, account, amount, proof) = "ok")
    /\ [][(last'.op = "claim" /\ last'.result \in TransferFailures) =>
             /\ claimedBitMap' = claimedBitMap
             /\ balances' = balances
             /\ \A c \in Senders, i \in 1..Len(EntriesMD) :
                   claimEntry([root |-> merkleRoot, proofs |-> EntriesMD], c, i) =>
                      /\ ~isClaimedIndex(EntriesMD[i].index)
                      /\ ~isClaimedIndex(EntriesMD[i].index)'
                      /\ balances[DistributorAddress] < EntriesMD[i].amount]_vars

\* the funded distributor after indices 0 and 2 of three were claimed: it
\* holds exactly the amount of index 1
C35_Witness ==
    /\ variant = "MD" /\ DeployedWithMint
    /\ Len(EntriesMD) = 3
    /\ isClaimedIndex(0) /\ ~isClaimedIndex(1) /\ isClaimedIndex(2)
    /\ last.op = "claim" /\ last.result = "ok"
    /\ balances[DistributorAddress] = EntriesMD[2].amount
    /\ balances[DistributorAddress] = MaxAmount

\* ------------------------------------------------------------------ C36
\* the record a claim writes: the caller in the airdrop contracts, the index
\* in the distributor
RecordOf(f) == IF variant = "MD" THEN f.index ELSE f.caller

AlreadyClaimedNow == IF variant = "MD" THEN AlreadyClaimedMD ELSE "AlreadyClaimed"

\* proofs a callback passes to a nested claim
NestedProofs == {e.proof : e \in CommittedEntries} \cup {<<>>}

\* C36: re-entrancy cannot double-issue: the claim record is set before the
\* external mint or transfer, so a claim for the same caller (the same index in
\* MerkleDistributor) that the token makes during that call fails with
\* AlreadyClaimed ("Drop already claimed"), and at most one amount is issued
\* per record.
C36_NoReentrantDoubleClaim ==
    /\ [](/\ \A k \in 1..Len(pending) :
               \A account \in Users, amount \in 0..MaxAmount, proof \in NestedProofs :
                  ChecksOfClaim(pending[k].caller, pending[k].index, account,
                                amount, proof) = AlreadyClaimedNow
          /\ \A j, k \in 1..Len(pending) :
                RecordOf(pending[j]) = RecordOf(pending[k]) => j = k
          /\ \A u \in Users :
                \/ balances[u] = 0
                \/ \E e \in CommittedEntries :
                      e.account = u /\ balances[u] = e.amount)
    /\ [][(pending # <<>> /\ pending' = pending /\ last' # last) =>
             \A c \in Users, e \in CommittedEntries :
                (/\ BeginClaim(IF variant = "MD" THEN c ELSE e.account,
                               e.index, e.account, e.amount, e.proof)
                 /\ \E k \in 1..Len(pending) :
                       RecordOf(pending[k]) =
                          (IF variant = "MD" THEN e.index ELSE e.account)) =>
                   /\ last'.result = AlreadyClaimedNow
                   /\ UNCHANGED contractState]_vars

\* user1's claim is inside its mint in a token with hooks, nothing has been
\* issued, and the claim the hook made for user1 was refused
C36_Witness ==
    /\ variant = "AC" /\ token = NonStandardToken
    /\ Len(pending) = 1 /\ pending[1].caller = 1
    /\ isClaimed[1] /\ ~isClaimed[2]
    /\ last.op = "claim" /\ last.result = "AlreadyClaimed"
    /\ \A u \in Users : balances[u] = 0

\* ------------------------------------------------------------------ C37
\* the claim record of an account in the deployed airdrop contract
ClaimRecord(account) ==
    IF variant = "AC" THEN isClaimed[account] ELSE hasClaimed[account]

\* C37: in AirdropWithAccessControl and in the upgradeable Airdrop a claim
\* affects only its caller: whatever other accounts do, the claim record of Y
\* becomes true and tokens are minted to Y only in a successful claim sent by
\* Y itself, for an amount committed to Y under the root in force; so another
\* account can neither claim Y's entitlement for itself nor consume it on Y's
\* behalf.
C37_ClaimAffectsOnlyCaller ==
    [][\A y \in Accounts :
          (\/ ClaimRecord(y)' /\ ~ClaimRecord(y)
           \/ balances'[y] > balances[y] /\ totalSupply' > totalSupply) =>
             /\ last'.op = "claim" /\ last'.result = "ok"
             /\ last'.caller = y
             /\ ClaimRecord(y)' /\ ~ClaimRecord(y)
             /\ balances'[y] = balances[y] + last'.amount
             /\ \E p \in ProofsNow : Verify(p, merkleRoot, Leaf(y, last'.amount))
             /\ \A x \in Accounts \ {y} :
                   /\ ClaimRecord(x)' = ClaimRecord(x)
                   /\ balances'[x] = balances[x]]_vars

\* user2 has claimed its own entry; a claim that another account then sent
\* was refused as InvalidProof, and user1's record and balance are untouched
C37_Witness ==
    /\ variant = "AC"
    /\ isClaimed[2] /\ balances[2] = 2
    /\ ~isClaimed[1] /\ balances[1] = 0
    /\ ~isClaimed[3] /\ balances[3] = 0 /\ balances[Owner] = 0
    /\ last.op = "claim" /\ last.result = "InvalidProof"

\* ------------------------------------------------------------------ C38
\* the upgradeable Airdrop with no holder of DEFAULT_ADMIN_ROLE
NoAdminUP == variant = "UP" /\ roles[DEFAULT_ADMIN_ROLE] = {}

\* C38: in the upgradeable Airdrop, once no account holds DEFAULT_ADMIN_ROLE
\* (the last admin revoked or renounced it), merkleRoot never changes again,
\* no role is ever granted again and no upgrade can be authorized, while
\* claims against the final root keep working: the contract's own checks pass
\* for every committed entry that has not claimed.
C38_NoAdminFreezes ==
    /\ [](NoAdminUP =>
            /\ \A c \in Accounts : CheckRole(DEFAULT_ADMIN_ROLE, c) # "ok"
            /\ InitializerCheck # "ok"
            /\ \A t \in CommittedNow :
                  ~hasClaimed[t[1]] =>
                     /\ ValidateUP(t[1], t[2], t[3]) = "ok"
                     /\ ClaimResultUP(t[1], t[2], t[3]) =
                           MintResult(AirdropAddress, t[2]))
    /\ [][NoAdminUP =>
             /\ NoAdminUP'
             /\ merkleRoot' = merkleRoot
             /\ \A r \in AllRoles : roles'[r] \subseteq roles[r]
             /\ implementation' = implementation
             /\ token' = token
             /\ last'.op \in {"setMerkleRoot", "upgradeToAndCall", "grantRole",
                              "revokeRole", "initialize"} => last'.result # "ok"]_vars

\* the admin rotated the root and gave up its role; user2 then claimed
\* against the final root
C38_Witness ==
    /\ NoAdminUP /\ merkleRoot = Root2 /\ implementation = 0
    /\ last.op = "claim" /\ last.result = "ok" /\ last.caller = 2
    /\ hasClaimed[2] /\ ~hasClaimed[1] /\ balances[2] = 2

\* ------------------------------------------------------------------ C39
\* C39 as stated: for the indexed variant, the leaf scripts/generateMerkle.ts
\* computes for (index, account, amount) is the hash of the byte string
\* MerkleDistributor.claim hashes, keccak256(abi.encodePacked(index, account,
\* amount)), so every proof of the generated merkle.json is accepted by the
\* MerkleDistributor deployed with the generated root.
C39_Original ==
    \A m \in PaddedFiles :
        m.root = merkleRoot =>
            \A i \in 1..Len(m.proofs) :
                LET p == m.proofs[i]
                IN  /\ leafPadded(p.index, p.account, p.amount)
                         = node(p.index, p.account, p.amount)
                    /\ ~isClaimedIndex(p.index) =>
                         ClaimResultMD(p.index, p.account, p.amount, p.proof) = "ok"

\* what the code does instead: a distributor deployed from a generated
\* merkle.json refuses every generated entry with "Invalid proof", marks no
\* index and keeps all the tokens the deploy script minted to it
C39_GeneratedProofsRejected ==
    \A m \in PaddedFiles :
        m.root = merkleRoot =>
            /\ \A i \in 1..Len(m.proofs) :
                  LET p == m.proofs[i]
                  IN  ClaimResultMD(p.index, p.account, p.amount, p.proof)
                         = InvalidProofMD
            /\ \A index \in Indices : ~isClaimedIndex(index)
            /\ balances[DistributorAddress] = totalAmount(m.proofs)

\* the distributor deployed by the script from the merkle.json of three
\* recipients has refused a claim as "Invalid proof" and still holds
\* everything
C39_Witness ==
    /\ variant = "MD" /\ token = TokenAddress
    /\ \E m \in PaddedFiles : m.root = merkleRoot /\ Len(m.proofs) = 3
    /\ last.op = "claim" /\ last.result = InvalidProofMD
    /\ balances[DistributorAddress] = totalSupply /\ totalSupply > 0
    /\ \A index \in Indices : ~isClaimedIndex(index)

====
